---- MODULE Spec2Model ----
(***************************************************************************)
(* Event delegation and dispatch of Firebolt (src/src/firebolt.js):        *)
(* Node.prototype.on / one / off, removeSelectorHandler and                *)
(* nodeEventHandler, over a small fixed DOM chain.                         *)
(***************************************************************************)
EXTENDS Integers, Sequences, FiniteSets, TLC

\* ------------------------------------------------------------------------
\* Bounds of the model
\* ------------------------------------------------------------------------

\* number of handler records that may exist at once (registry + snapshots)
MaxRecs == 2

Ids == 1..MaxRecs

\* ------------------------------------------------------------------------
\* JavaScript values that are passed to on/off
\* ------------------------------------------------------------------------

Undefined == [t |-> "undefined", v |-> ""]
Zero == [t |-> "number", v |-> "0"]
False == [t |-> "boolean", v |-> "false"]
Str(s) == [t |-> "string", v |-> s]
Fn(name) == [t |-> "function", v |-> name]

isUndefined(value) == value = Undefined

typeofString(value) == value.t = "string"

\* JS truthiness of the values above
Truthy(value) ==
  \/ value.t \in {"function", "object"}
  \/ value.t = "string" /\ value.v # ""

returnFalse == Fn("returnFalse")

\* ------------------------------------------------------------------------
\* JS objects used as ordered maps: a sequence of [key, val] entries in
\* property insertion order (the order Object.keys and for-in enumerate)
\* ------------------------------------------------------------------------

keys(object) == [x \in 1..Len(object) |-> object[x].key]

Has(object, key) == \E x \in 1..Len(object) : object[x].key = key

Get(object, key) == object[CHOOSE x \in 1..Len(object) : object[x].key = key].val

Put(object, key, val) ==
  IF Has(object, key)
  THEN [x \in 1..Len(object) |->
          IF object[x].key = key THEN [key |-> key, val |-> val] ELSE object[x]]
  ELSE Append(object, [key |-> key, val |-> val])

Delete(object, key) == SelectSeq(object, LAMBDA e : e.key # key)

isEmptyObject(object) == Len(object) = 0

\* Array.prototype.splice(x, 1) at 1-based position x
Splice1(array, x) ==
  [y \in 1..(Len(array) - 1) |-> IF y < x THEN array[y] ELSE array[y + 1]]

\* Array.prototype.remove(item): removes every occurrence of item
RECURSIVE array_remove(_, _)
array_remove(array, item) ==
  IF \E x \in 1..Len(array) : array[x] = item
  THEN array_remove(Splice1(array, CHOOSE x \in 1..Len(array) :
                              /\ array[x] = item
                              /\ \A y \in 1..(x - 1) : array[y] # item), item)
  ELSE array

\* Array.prototype.clone: a shallow copy (the records are shared)
clone(array) == [x \in 1..Len(array) |-> array[x]]

\* ------------------------------------------------------------------------
\* The DOM: elements A > B > C and a text node T inside C; A2 is the element
\* that A.clone() returns, outside the document
\* ------------------------------------------------------------------------

Nodes == {"A", "B", "C", "T", "A2"}

NoNode == "null"

parentElement(node) ==
  CASE node = "T" -> "C"
    [] node = "C" -> "B"
    [] node = "B" -> "A"
    [] OTHER -> NoNode

\* a DOM in which text nodes have the matches function too
hasMatchesAlways(node) == TRUE

\* only elements have the matches function
hasMatches(node) == node # "T"

\* Element.prototype.matches for the selectors of the model
matches(node, selector) ==
  CASE selector = ".item" -> node \in {"A", "B", "C"}
    [] selector = ".b" -> node = "B"
    [] OTHER -> FALSE

\* parentsUntil that stops only after it has added the until node
RECURSIVE parentsUntilInclusive(_, _, _)
parentsUntilInclusive(nc, node, until) ==
  LET next == parentElement(node) IN
  IF next = NoNode THEN nc
  ELSE IF next = until THEN Append(nc, next)
  ELSE parentsUntilInclusive(Append(nc, next), next, until)

\* Node.prototype.parentsUntil(until), until a node
RECURSIVE parentsUntilLoop(_, _, _)
parentsUntilLoop(nc, node, until) ==
  LET next == parentElement(node) IN
  IF next # NoNode /\ next # until
  THEN parentsUntilLoop(Append(nc, next), next, until)
  ELSE nc

\* parentsUntil that gives the ancestors from the outermost to the nearest
parentsUntilOutsideIn(node, until) ==
  LET nc == parentsUntilLoop(<<>>, node, until)
  IN [x \in 1..Len(nc) |-> nc[Len(nc) + 1 - x]]

parentsUntil(node, until) == parentsUntilLoop(<<>>, node, until)

\* the nodes whose events bubble to node
RECURSIVE IsInside(_, _)
IsInside(node, ancestor) ==
  \/ node = ancestor
  \/ node # NoNode /\ IsInside(parentElement(node), ancestor)

\* ------------------------------------------------------------------------
\* State
\* ------------------------------------------------------------------------

VARIABLES
  E,          \* E[node]: the node's __E__ property: [def, ev], ev an ordered
              \* map eventType -> (ordered map selector -> array of records)
  listeners,  \* listeners[node]: event types nodeEventHandler listens to
  calls,      \* add/removeEventListener calls made by the last operation
  stack,      \* activation records of nodeEventHandler, innermost last
  log,        \* handler invocations of the running dispatch cycle
  fired,      \* fired[id]: how often the record, if set by one(), was invoked
              \* (0, 1, or 2 for more than once)
  op,         \* the last call made from outside any handler, with its arguments,
              \* where a specification records it
  eventObject, \* the event object a script has created and keeps: its type and
              \* its propagationStopped property, where a specification has one
  shared,     \* the handler arrays that the __E__ of a node and of its clone both
              \* refer to, where a specification clones nodes
  attributes  \* the attributes of an element, where a specification sets them

vars == <<E, listeners, calls, stack, log, fired, op, eventObject, shared, attributes>>

\* the variables that the event registry and its dispatch cycles leave alone
aside == <<eventObject, shared, attributes>>

\* no event object
NoEvent == [type |-> "", propagationStopped |-> FALSE]

\* the part of the state on/off work on
Store == [E |-> E, L |-> listeners, X |-> <<>>]

Range(seq) == {seq[x] : x \in 1..Len(seq)}

\* the records stored in one selector -> handlers map, in a node, anywhere
RecsOfBucket(selectorHandlers) ==
  UNION {Range(selectorHandlers[y].val) : y \in 1..Len(selectorHandlers)}

RecsOfNode(eventHandlers) ==
  UNION {RecsOfBucket(eventHandlers.ev[x].val) : x \in 1..Len(eventHandlers.ev)}

RegRecs(reg) == UNION {RecsOfNode(reg[n]) : n \in Nodes}

FrameRecs(f) == RecsOfBucket(f.selectorHandlersCopy) \cup Range(f.handlers)

StackRecs == UNION {FrameRecs(stack[x]) : x \in 1..Len(stack)}

\* ids of the record objects that are still referenced somewhere
UsedIds(reg) == {r.id : r \in RegRecs(reg) \cup StackRecs}

FreeIds(reg) == Ids \ UsedIds(reg)

Min(S) == CHOOSE x \in S : \A y \in S : x <= y

\* ------------------------------------------------------------------------
\* The native calls on/off make
\* ------------------------------------------------------------------------

\* on() that does not start to listen
addEventListenerForgotten(S, this, eventType) == S

\* this.addEventListener(eventType, nodeEventHandler)
addEventListener(S, this, eventType) ==
  [S EXCEPT !.L[this] = @ \cup {eventType},
            !.X = Append(@, [call |-> "addEventListener",
                             node |-> this, type |-> eventType])]

\* off() that does not stop to listen
removeEventListenerForgotten(S, this, eventType) == S

\* this.removeEventListener(eventType, nodeEventHandler)
removeEventListener(S, this, eventType) ==
  [S EXCEPT !.L[this] = @ \ {eventType},
            !.X = Append(@, [call |-> "removeEventListener",
                             node |-> this, type |-> eventType])]

\* push that puts the item in front (unshift)
pushFront(array, item) == <<item>> \o array

\* push that drops an item whose function is already in the array
pushUnique(array, item) ==
  IF \E x \in 1..Len(array) : array[x].fn = item.fn THEN array
  ELSE Append(array, item)

\* Array.prototype.push
push(array, item) == Append(array, item)

\* ------------------------------------------------------------------------
\* removeSelectorHandler and Node.prototype.off
\* ------------------------------------------------------------------------

\* the splice loop without the i-- of line 3521: the record that follows a
\* removed one is skipped
RECURSIVE spliceLoopNoBack(_, _, _)
spliceLoopNoBack(handlers, i, handler) ==
  IF i >= Len(handlers) THEN handlers
  ELSE IF handlers[i + 1].fn = handler
       THEN spliceLoopNoBack(Splice1(handlers, i + 1), i + 1, handler)
       ELSE spliceLoopNoBack(handlers, i + 1, handler)

\* the splice loop of removeSelectorHandler; i is the 0-based loop index
RECURSIVE spliceLoop(_, _, _)
spliceLoop(handlers, i, handler) ==
  IF i >= Len(handlers) THEN handlers
  ELSE IF handlers[i + 1].fn = handler
       THEN spliceLoop(Splice1(handlers, i + 1), i, handler)
       ELSE spliceLoop(handlers, i + 1, handler)

\* removeSelectorHandler that leaves the emptied array in place
removeSelectorHandlerKeepEmpty(selectorHandlers, selector, handler) ==
  IF ~Has(selectorHandlers, selector) THEN selectorHandlers
  ELSE Put(selectorHandlers, selector,
           IF Truthy(handler)
           THEN spliceLoop(Get(selectorHandlers, selector), 0, handler)
           ELSE <<>>)

removeSelectorHandler(selectorHandlers, selector, handler) ==
  IF ~Has(selectorHandlers, selector) THEN selectorHandlers
  ELSE LET handlers == IF Truthy(handler)
                       THEN spliceLoop(Get(selectorHandlers, selector), 0, handler)
                       ELSE <<>>
       IN IF Len(handlers) = 0
          THEN Delete(selectorHandlers, selector)
          ELSE Put(selectorHandlers, selector, handlers)

\* a loop over the selector keys that misses the key after each key it handles
RECURSIVE forInSelectorsSkip(_, _, _, _)
forInSelectorsSkip(selectorHandlers, sels, x, handler) ==
  IF x > Len(sels) THEN selectorHandlers
  ELSE forInSelectorsSkip(removeSelectorHandler(selectorHandlers, sels[x], handler),
                          sels, x + 2, handler)

\* for (sel in selectorHandlers) removeSelectorHandler(selectorHandlers, sel, handler)
RECURSIVE forInSelectors(_, _, _, _)
forInSelectors(selectorHandlers, sels, x, handler) ==
  IF x > Len(sels) THEN selectorHandlers
  ELSE forInSelectors(removeSelectorHandler(selectorHandlers, sels[x], handler),
                      sels, x + 1, handler)

\* the loop over the event types of Node.prototype.off; x is 1-based
RECURSIVE offLoop(_, _, _, _, _, _)
offLoop(S, this, events, x, selector, handler) ==
  IF x > Len(events) THEN S
  ELSE
    LET eventType == events[x]
        eventHandlers == S.E[this].ev
    IN IF ~Has(eventHandlers, eventType)
       THEN offLoop(S, this, events, x + 1, selector, handler)
       ELSE
         LET old == Get(eventHandlers, eventType)
             selectorHandlers ==
               IF Truthy(selector)
               THEN removeSelectorHandler(old, selector.v, handler)
               ELSE forInSelectors(old, keys(old), 1, handler)
             S2 == IF isEmptyObject(selectorHandlers)
                   THEN removeEventListener(
                          [S EXCEPT !.E[this].ev = Delete(eventHandlers, eventType)],
                          this, eventType)
                   ELSE [S EXCEPT !.E[this].ev =
                                    Put(eventHandlers, eventType, selectorHandlers)]
         IN offLoop(S2, this, events, x + 1, selector, handler)

\* events is the list events.split(' '), or <<>> when events was not passed
off(S, this, events, selector, handler) ==
  IF ~S.E[this].def THEN S
  ELSE
    LET evs == IF events \notin {<<>>, <<"">>} THEN events ELSE keys(S.E[this].ev)
        shifted == ~isUndefined(selector) /\ ~typeofString(selector)
        handler1 == IF shifted THEN selector ELSE handler
        selector1 == IF shifted THEN Zero ELSE selector
        handler2 == IF handler1 = False THEN returnFalse ELSE handler1
    IN offLoop(S, this, evs, 1, selector1, handler2)

\* ------------------------------------------------------------------------
\* Node.prototype.on and Node.prototype.one
\* ------------------------------------------------------------------------

\* the loop of on() without the test of line 3776: an empty token is taken for
\* an event type (as long as a record object is left to store)
RECURSIVE onLoopNoSanity(_, _, _, _, _, _, _, _)
onLoopNoSanity(S, this, events, x, selector, data, handler, o) ==
  IF x > Len(events) \/ FreeIds(S.E) = {} THEN S
  ELSE
    LET eventType == events[x]
        eventHandlers == S.E[this].ev
        created == ~Has(eventHandlers, eventType)
        savedHandlers == IF created THEN <<>> ELSE Get(eventHandlers, eventType)
        array == IF Has(savedHandlers, selector) THEN Get(savedHandlers, selector)
                 ELSE <<>>
        record == [id |-> Min(FreeIds(S.E)), fn |-> handler, d |-> data, o |-> o]
        ev2 == Put(eventHandlers, eventType,
                   Put(savedHandlers, selector, push(array, record)))
        S1 == IF created THEN addEventListener(S, this, eventType) ELSE S
        S2 == [S1 EXCEPT !.E[this].ev = ev2]
    IN onLoopNoSanity(S2, this, events, x + 1, selector, data, handler, o)

\* the loop over the event types of Node.prototype.on; x is 1-based
RECURSIVE onLoop(_, _, _, _, _, _, _, _)
onLoop(S, this, events, x, selector, data, handler, o) ==
  IF x > Len(events) THEN S
  ELSE
    LET eventType == events[x] IN
    IF eventType = ""
    THEN onLoop(S, this, events, x + 1, selector, data, handler, o)
    ELSE
      LET eventHandlers == S.E[this].ev
          created == ~Has(eventHandlers, eventType)
          savedHandlers == IF created THEN <<>> ELSE Get(eventHandlers, eventType)
          array == IF Has(savedHandlers, selector) THEN Get(savedHandlers, selector)
                   ELSE <<>>
          record == [id |-> Min(FreeIds(S.E)), fn |-> handler, d |-> data, o |-> o]
          ev2 == Put(eventHandlers, eventType,
                     Put(savedHandlers, selector, push(array, record)))
          S1 == IF created THEN addEventListener(S, this, eventType) ELSE S
          S2 == [S1 EXCEPT !.E[this].ev = ev2]
      IN onLoop(S2, this, events, x + 1, selector, data, handler, o)

\* events is the list events.split(' '); one is 1 for Node.prototype.one, else 0
on(S, this, events, selector, data, handler, one) ==
  LET S1 == [S EXCEPT !.E[this].def = TRUE]
      selectorIsString == typeofString(selector)
      handler1 == IF ~isUndefined(handler) THEN handler
                  ELSE IF isUndefined(data) THEN selector ELSE data
      data1 == IF ~isUndefined(handler) \/ isUndefined(data) THEN data
               ELSE IF selectorIsString THEN Undefined ELSE selector
      selector1 == IF selectorIsString THEN selector.v ELSE ""
      handler2 == IF handler1 = False THEN returnFalse ELSE handler1
  IN onLoop(S1, this, events, 1, selector1, data1, handler2, one)

\* on() needs a fresh record object per listed event type
CanOn(S, events) ==
  Cardinality(FreeIds(S.E)) >= Cardinality({x \in 1..Len(events) : events[x] # ""})

\* ------------------------------------------------------------------------
\* Callbacks: what the user functions of the model do when they are invoked
\* ------------------------------------------------------------------------

NoOp == [op |-> "none", events |-> <<>>, selector |-> Undefined,
         data |-> Undefined, handler |-> Undefined]

OnOp(events, selector, data, handler) ==
  [op |-> "on", events |-> events, selector |-> selector,
   data |-> data, handler |-> handler]

OffOp(events, selector, handler) ==
  [op |-> "off", events |-> events, selector |-> selector,
   data |-> Undefined, handler |-> handler]

\* NodePrototype.one: on() with one = 1
one(S, this, events, selector, data, handler) ==
  on(S, this, events, selector, data, handler, 1)

OpEnabled(S, c) == c.op = "on" => CanOn(S, c.events)

ApplyOp(S, this, c) ==
  CASE c.op = "on" -> on(S, this, c.events, c.selector, c.data, c.handler, 0)
    [] c.op = "off" -> off(S, this, c.events, c.selector, c.handler)
    [] OTHER -> S

\* the functions users register
UserFns == {Fn("cb1"), Fn("mut")}

\* what a call of fn returns: returnFalse returns false, the others undefined
Returns(fn) == IF fn = returnFalse THEN False ELSE Undefined

\* the handler arguments of on/off: a function or the shorthand false
HandlerArgs == UserFns \cup {False}

SelectorArgs == {Str(".item"), Str(".b")}

EventArgs == {<<"click">>}

\* on(events, handler) and on(events, selector, handler)
OnShapes ==
  {[events |-> ev, selector |-> h, data |-> Undefined, handler |-> Undefined] :
     ev \in EventArgs, h \in HandlerArgs}
  \cup
  {[events |-> ev, selector |-> sel, data |-> h, handler |-> Undefined] :
     ev \in EventArgs, sel \in SelectorArgs, h \in HandlerArgs}

\* off(), off(events), off(events, selector), off(events, selector, handler),
\* off(events, handler)
OffShapes ==
  {OffOp(<<>>, Undefined, Undefined)}
  \cup {OffOp(ev, Undefined, Undefined) : ev \in EventArgs}
  \cup {OffOp(ev, sel, Undefined) : ev \in EventArgs, sel \in SelectorArgs}
  \cup {OffOp(ev, sel, h) : ev \in EventArgs, sel \in SelectorArgs, h \in HandlerArgs}
  \cup {OffOp(ev, h, Undefined) : ev \in EventArgs, h \in HandlerArgs}

\* the calls the function mut may make on the bound node while it runs
MutOps ==
  {NoOp}
  \cup {OnOp(c.events, c.selector, c.data, c.handler) :
          c \in {d \in OnShapes : Fn("mut") \notin {d.selector, d.data}}}
  \cup OffShapes

\* the calls a function makes on the bound node in a run that returns; the
\* function boom never returns, it throws; the function trig dispatches an
\* event (Trigger), or returns without one
CallbackOps(fn) ==
  IF fn = Fn("mut") THEN MutOps
  ELSE IF fn = Fn("boom") THEN {}
  ELSE {NoOp}

\* ------------------------------------------------------------------------
\* nodeEventHandler: one activation record per running dispatch cycle.
\* (phase, i, j, k) is the position of the next handler call.
\* ------------------------------------------------------------------------

Done(f) == [f EXCEPT !.phase = "done"]

\* a non-delegated loop that ends once a handler has returned false
seekNonDelegatedStop(f) ==
  IF f.k < Len(f.handlers) /\ ~f.propagationStopped THEN f ELSE Done(f)

\* line 3691: the loop head of the non-delegated section
seekNonDelegated(f) == IF f.k < Len(f.handlers) THEN f ELSE Done(f)

\* the non-delegated section entered although propagation was stopped
enterNonDelegatedAlways(f, reg) ==
  LET live == ~f.stale /\ Has(reg[f.this].ev, f.eType)
      selectorHandlers == IF live THEN Get(reg[f.this].ev, f.eType) ELSE <<>>
  IN IF Has(selectorHandlers, "")
     THEN seekNonDelegated([f EXCEPT !.phase = "nondelegated", !.k = 0,
                                     !.handlers = clone(Get(selectorHandlers, ""))])
     ELSE Done(f)

\* lines 3688-3691: the test before the non-delegated handlers, and the clone
enterNonDelegated(f, reg) ==
  LET live == ~f.stale /\ Has(reg[f.this].ev, f.eType)
      selectorHandlers == IF live THEN Get(reg[f.this].ev, f.eType) ELSE <<>>
  IN IF ~f.propagationStopped /\ Has(selectorHandlers, "")
     THEN seekNonDelegated([f EXCEPT !.phase = "nondelegated", !.k = 0,
                                     !.handlers = clone(Get(selectorHandlers, ""))])
     ELSE Done(f)

\* loop heads of a delegated section that walks the arrays stored in __E__
\* instead of their clones
RECURSIVE seekDelegatedLive(_, _, _)
seekDelegatedLive(f0, atHead, reg) ==
  LET stored == IF ~f0.stale /\ Has(reg[f0.this].ev, f0.eType)
                THEN Get(reg[f0.this].ev, f0.eType) ELSE <<>>
      f == [f0 EXCEPT !.selectorHandlersCopy =
              [y \in 1..Len(@) |->
                 IF Has(stored, @[y].key)
                 THEN [key |-> @[y].key, val |-> Get(stored, @[y].key)]
                 ELSE @[y]]]
  IN IF atHead /\ ~(f.i < Len(f.path) /\ ~f.propagationStopped)
     THEN enterNonDelegated(f, reg)
     ELSE IF f.j >= Len(f.selectors)
     THEN seekDelegatedLive([f EXCEPT !.i = @ + 1, !.j = 0, !.k = 0], TRUE, reg)
     ELSE IF /\ matches(f.path[f.i + 1], f.selectors[f.j + 1])
             /\ f.k < Len(Get(f.selectorHandlersCopy, f.selectors[f.j + 1]))
     THEN f
     ELSE seekDelegatedLive([f EXCEPT !.j = @ + 1, !.k = 0], FALSE, reg)

\* lines 3657-3665: the loop heads of the delegated section up to the next call;
\* atHead is TRUE when the condition of the path loop is due
RECURSIVE seekDelegated(_, _, _)
seekDelegated(f, atHead, reg) ==
  IF atHead /\ ~(f.i < Len(f.path) /\ ~f.propagationStopped)
  THEN enterNonDelegated(f, reg)
  ELSE IF f.j >= Len(f.selectors)
  THEN seekDelegated([f EXCEPT !.i = @ + 1, !.j = 0, !.k = 0], TRUE, reg)
  ELSE IF /\ matches(f.path[f.i + 1], f.selectors[f.j + 1])
          /\ f.k < Len(Get(f.selectorHandlersCopy, f.selectors[f.j + 1]))
  THEN f
  ELSE seekDelegated([f EXCEPT !.j = @ + 1, !.k = 0], FALSE, reg)

\* nodeEventHandler without the test target !== _this of line 3642
nodeEventHandlerAnyTarget(this, eType, target, stopped, reg) ==
  LET selectorHandlers == Get(reg[this].ev, eType)
      selectors == array_remove(keys(selectorHandlers), "")
      numSelectors == Len(selectors)
      delegated == numSelectors # 0
      f == [this |-> this, target |-> target, eType |-> eType, stale |-> FALSE,
            selectors |-> selectors,
            selectorHandlersCopy |->
              IF delegated
              THEN [x \in 1..numSelectors |->
                      [key |-> selectors[x],
                       val |-> clone(Get(selectorHandlers, selectors[x]))]]
              ELSE <<>>,
            path |-> IF ~delegated THEN <<>>
                     ELSE IF hasMatches(target)
                          THEN <<target>> \o parentsUntil(target, this)
                          ELSE parentsUntil(target, this),
            i |-> 0, j |-> 0, k |-> 0, handlers |-> <<>>,
            phase |-> "delegated", propagationStopped |-> stopped]
  IN IF delegated THEN seekDelegated(f, TRUE, reg) ELSE enterNonDelegated(f, reg)

\* lines 3623-3654: the start of nodeEventHandler, up to the first handler call
nodeEventHandler(this, eType, target, stopped, reg) ==
  LET selectorHandlers == Get(reg[this].ev, eType)
      selectors == array_remove(keys(selectorHandlers), "")
      numSelectors == Len(selectors)
      delegated == numSelectors # 0 /\ target # this
      f == [this |-> this, target |-> target, eType |-> eType, stale |-> FALSE,
            selectors |-> selectors,
            selectorHandlersCopy |->
              IF delegated
              THEN [x \in 1..numSelectors |->
                      [key |-> selectors[x],
                       val |-> clone(Get(selectorHandlers, selectors[x]))]]
              ELSE <<>>,
            path |-> IF ~delegated THEN <<>>
                     ELSE IF hasMatches(target)
                          THEN <<target>> \o parentsUntil(target, this)
                          ELSE parentsUntil(target, this),
            i |-> 0, j |-> 0, k |-> 0, handlers |-> <<>>,
            phase |-> "delegated", propagationStopped |-> stopped]
  IN IF delegated THEN seekDelegated(f, TRUE, reg) ELSE enterNonDelegated(f, reg)

\* handler.o = 0 on the record object id, wherever it is referenced
SetO(array, id) ==
  [x \in 1..Len(array) |->
     IF array[x].id = id THEN [array[x] EXCEPT !.o = 0] ELSE array[x]]

SetOInMap(selectorHandlers, id) ==
  [y \in 1..Len(selectorHandlers) |->
     [key |-> selectorHandlers[y].key, val |-> SetO(selectorHandlers[y].val, id)]]

SetOInFrame(f, id) ==
  [f EXCEPT !.selectorHandlersCopy = SetOInMap(@, id), !.handlers = SetO(@, id)]

SetOInReg(reg, id) ==
  [n \in Nodes |->
     [reg[n] EXCEPT !.ev = [x \in 1..Len(@) |->
                              [key |-> @[x].key, val |-> SetOInMap(@[x].val, id)]]]]

\* an activation record keeps the selectorHandlers object it read at its start:
\* once off() has deleted that object from __E__, the record holds a detached one
Detach(f, X) ==
  IF \E x \in 1..Len(X) : /\ X[x].call = "removeEventListener"
                          /\ X[x].node = f.this
                          /\ X[x].type = f.eType
  THEN [f EXCEPT !.stale = TRUE]
  ELSE f

\* the invocation counts, forgotten for record objects nothing refers to
Collect(counts, reg, stk) ==
  LET used == {r.id : r \in RegRecs(reg) \cup
                            UNION {FrameRecs(stk[x]) : x \in 1..Len(stk)}}
  IN [id \in Ids |-> IF id \in used THEN counts[id] ELSE 0]

\* counts the calls of the records set by one() (o = 1 when first called)
Bump(counts, handler) ==
  IF handler.o = 1 \/ counts[handler.id] > 0
  THEN [counts EXCEPT ![handler.id] = IF @ = 0 THEN 1 ELSE 2]
  ELSE counts

\* Record objects carry no name in the source; an id stands for the identity of
\* the object. While no cycle runs, the objects are named in the order in which
\* they are stored, so that states differing only in the names coincide.
RECURSIVE Concat(_)
Concat(seqs) == IF Len(seqs) = 0 THEN <<>> ELSE Head(seqs) \o Concat(Tail(seqs))

NodeOrder == <<"A", "B", "C", "T", "A2">>

IdsOfMap(selectorHandlers) ==
  Concat([y \in 1..Len(selectorHandlers) |->
            [z \in 1..Len(selectorHandlers[y].val) |-> selectorHandlers[y].val[z].id]])

StoredIds(reg) ==
  Concat([n \in 1..Len(NodeOrder) |->
            Concat([x \in 1..Len(reg[NodeOrder[n]].ev) |->
                      IdsOfMap(reg[NodeOrder[n]].ev[x].val)])])

NameOf(ids, id) == CHOOSE x \in 1..Len(ids) : ids[x] = id

RenameInMap(selectorHandlers, ids) ==
  [y \in 1..Len(selectorHandlers) |->
     [key |-> selectorHandlers[y].key,
      val |-> [z \in 1..Len(selectorHandlers[y].val) |->
                 [selectorHandlers[y].val[z] EXCEPT !.id = NameOf(ids, @)]]]]

Rename(reg) ==
  LET ids == StoredIds(reg) IN
  IF \A x \in 1..Len(ids) : ids[x] = x THEN reg
  ELSE [n \in Nodes |->
          [reg[n] EXCEPT !.ev = [x \in 1..Len(@) |->
                                   [key |-> @[x].key,
                                    val |-> RenameInMap(@[x].val, ids)]]]]

RenameCounts(counts, reg) ==
  LET ids == StoredIds(reg) IN
  [id \in Ids |-> IF id <= Len(ids) THEN counts[ids[id]] ELSE 0]

Top == stack[Len(stack)]

\* the record the innermost cycle calls next, its selector key and its `this`
CurSelector(f) == IF f.phase = "delegated" THEN f.selectors[f.j + 1] ELSE ""

\* the handlers loop reading the live array of __E__ instead of its clone
CurHandlerLive(f) ==
  LET sel == IF f.phase = "delegated" THEN f.selectors[f.j + 1] ELSE ""
      own == IF f.phase = "delegated"
             THEN Get(f.selectorHandlersCopy, sel) ELSE f.handlers
      has == /\ Has(E[f.this].ev, f.eType)
             /\ Has(Get(E[f.this].ev, f.eType), sel)
      live == IF has THEN Get(Get(E[f.this].ev, f.eType), sel) ELSE <<>>
  IN IF f.k < Len(live) THEN live[f.k + 1] ELSE own[f.k + 1]

CurHandler(f) ==
  IF f.phase = "delegated"
  THEN Get(f.selectorHandlersCopy, f.selectors[f.j + 1])[f.k + 1]
  ELSE f.handlers[f.k + 1]

CurThis(f) == IF f.phase = "delegated" THEN f.path[f.i + 1] ELSE f.this

\* a dispatcher that never removes the handlers set by one()
removeOnceNever(S, f, handler) == S

\* lines 3676-3680 and 3702-3705: the removal of a handler set by one()
removeOnce(S, f, handler) ==
  IF handler.o # 1 THEN S
  ELSE IF f.phase = "delegated"
       THEN off(S, f.this, <<f.eType>>, Str(CurSelector(f)), handler.fn)
       ELSE off(S, f.this, <<f.eType>>, handler.fn, Undefined)

\* ------------------------------------------------------------------------
\* Actions
\* ------------------------------------------------------------------------

Init ==
  /\ E = [n \in Nodes |-> [def |-> FALSE, ev |-> <<>>]]
  /\ listeners = [n \in Nodes |-> {}]
  /\ calls = <<>>
  /\ stack = <<>>
  /\ log = <<>>
  /\ fired = [id \in Ids |-> 0]
  /\ op = NoOp
  /\ eventObject = NoEvent
  /\ shared = {}
  /\ attributes = <<>>

\* the nodes handlers are bound to
BoundNodes == {"A"}

\* The store an operation returns is bound once (\E over a singleton), so the
\* operation is computed a single time for all the variables it updates.
Commit(S0) ==
  \E S \in {S0} :
  /\ E' = Rename(S.E)
  /\ listeners' = S.L
  /\ calls' = S.X
  /\ fired' = RenameCounts(fired, S.E)
  /\ UNCHANGED <<stack, log, op>>
  /\ UNCHANGED aside

\* a call of node.on(...) from outside any handler
On ==
  /\ stack = <<>>
  /\ \E this \in BoundNodes, c \in OnShapes :
       /\ CanOn(Store, c.events)
       /\ Commit(on(Store, this, c.events, c.selector, c.data, c.handler, 0))

\* a call of node.one(...) from outside any handler
One ==
  /\ stack = <<>>
  /\ \E this \in BoundNodes, c \in OnShapes :
       /\ CanOn(Store, c.events)
       /\ Commit(one(Store, this, c.events, c.selector, c.data, c.handler))

\* a call of node.off(...) from outside any handler
Off ==
  /\ stack = <<>>
  /\ \E this \in BoundNodes, c \in OffShapes :
       Commit(off(Store, this, c.events, c.selector, c.handler))

\* the browser calls nodeEventHandler on a node that listens to the event type,
\* for an event whose target is the node or lies inside it
Dispatch ==
  /\ stack = <<>>
  /\ \E this \in BoundNodes, target \in Nodes :
       \E eType \in listeners[this] :
         /\ IsInside(target, this)
         /\ stack' = <<nodeEventHandler(this, eType, target, FALSE, E)>>
  /\ log' = <<>>
  /\ calls' = <<>>
  /\ UNCHANGED <<E, listeners, fired, op>>
  /\ UNCHANGED aside

\* a propagationStopped flag that all the running cycles share
stopPropagationShared(stk) ==
  [x \in 1..Len(stk) |-> [stk[x] EXCEPT !.propagationStopped = TRUE]]

\* eventObject.stopPropagation() in the innermost cycle of stk: the flag is set
\* on the event object of that cycle
stopPropagation(stk) == [stk EXCEPT ![Len(stk)].propagationStopped = TRUE]

\* the rest of one pass through the body of a handlers loop, once the handler
\* called by the innermost cycle of stk0 has returned, having made the call c:
\* the test of its result, the removal of a one() handler, and the loop heads
\* up to the next call
Advance(stk0, c) ==
  \E f \in {stk0[Len(stk0)]} : \E handler \in {CurHandler(f)} :
     \E S1 \in {ApplyOp(Store, f.this, c)} :
     \E S2 \in {removeOnce(S1, f, handler)} :
     \E zero \in {handler.o = 1 /\ f.phase = "delegated"} :
     \E reg \in {IF zero THEN SetOInReg(S2.E, handler.id) ELSE S2.E} :
     \E stk \in {[x \in 1..Len(stk0) |->
                   LET g == Detach(stk0[x], S2.X)
                   IN IF zero THEN SetOInFrame(g, handler.id) ELSE g]} :
     \E stopped \in {IF Returns(handler.fn) = False
                      THEN stopPropagation(stk) ELSE stk} :
     \E f1 \in {[stopped[Len(stopped)] EXCEPT !.k = @ + 1]} :
     \E f2 \in {IF f.phase = "delegated"
               THEN seekDelegated(f1, FALSE, reg)
               ELSE seekNonDelegated(f1)} :
     \E stk2 \in {[stopped EXCEPT ![Len(stopped)] = f2]} :
        /\ stack' = stk2
        /\ E' = reg
        /\ listeners' = S2.L
        /\ calls' = S2.X
        /\ log' = Append(log, [id |-> handler.id, fn |-> handler.fn,
                               this |-> CurThis(f), d |-> handler.d,
                               sel |-> CurSelector(f), i |-> f.i,
                               ret |-> Returns(handler.fn),
                               born |-> {r.id : r \in RegRecs(S1.E)}
                                          \ {r.id : r \in RegRecs(E)},
                               gone |-> {r.id : r \in RegRecs(E)}
                                          \ {r.id : r \in RegRecs(S1.E)},
                               depth |-> Len(stk0)])
        /\ fired' = Collect(Bump(fired, handler), reg, stk2)
        /\ UNCHANGED op
        /\ UNCHANGED aside

\* one pass through the body of a handlers loop (lines 3666-3680 or 3692-3705):
\* the call of the handler, with what the handler itself does, and the rest of
\* the pass
Step ==
  /\ stack # <<>>
  /\ Top.phase \in {"delegated", "nondelegated"}
  /\ \E c \in CallbackOps(CurHandler(Top).fn) :
       /\ OpEnabled(Store, c)
       /\ Advance(stack, c)

\* nodeEventHandler returns to the browser
Finish ==
  /\ Len(stack) = 1
  /\ Top.phase = "done"
  /\ stack' = <<>>
  /\ log' = <<>>
  /\ calls' = <<>>
  /\ E' = Rename(E)
  /\ fired' = RenameCounts(fired, E)
  /\ UNCHANGED <<listeners, op>>
  /\ UNCHANGED aside

Next == On \/ One \/ Off \/ Dispatch \/ Step \/ Finish

Spec == Init /\ [][Next]_vars

\* every callback returns: a handler that was called returns, and the pass
\* through the loop body that called it is completed
SpecF == Init /\ [][Next]_vars /\ WF_vars(Step)

\* ------------------------------------------------------------------------
\* The registry operations in all their call shapes, over two event types,
\* with the last call recorded in op
\* ------------------------------------------------------------------------

\* a call from outside any handler, as op records it
Call(name, this, events, selector, data, handler, target) ==
  [op |-> name, node |-> this, events |-> events, selector |-> selector,
   data |-> data, handler |-> handler, target |-> target]

EventTypesR == {"click", "key"}

EventArgsR == {<<"click">>, <<"key">>}

\* the selector strings passed to on/off, the empty string among them
SelectorArgsR == {Str(""), Str(".item")}

HandlerArgsR == {Fn("cb1"), False}

DataArgsR == {Str("d")}

TargetsR == {"A", "C"}

\* on(events, handler), on(events, selector, handler) and
\* on(events, selector, data, handler)
OnShapesR ==
  {[events |-> ev, selector |-> h, data |-> Undefined, handler |-> Undefined] :
     ev \in EventArgsR, h \in HandlerArgsR}
  \cup
  {[events |-> ev, selector |-> sel, data |-> h, handler |-> Undefined] :
     ev \in EventArgsR, sel \in SelectorArgsR, h \in HandlerArgsR}
  \cup
  {[events |-> ev, selector |-> Str(".item"), data |-> d, handler |-> h] :
     ev \in EventArgsR, d \in DataArgsR, h \in HandlerArgsR}

\* one(events, selector, handler)
OneShapesR ==
  {[events |-> ev, selector |-> Str(".item"), data |-> Fn("cb1"),
    handler |-> Undefined] : ev \in EventArgsR}

\* off(), off(events), off(events, selector), off(events, selector, handler),
\* off(events, handler)
OffShapesR ==
  {OffOp(<<>>, Undefined, Undefined)}
  \cup {OffOp(ev, Undefined, Undefined) : ev \in EventArgsR}
  \cup {OffOp(ev, sel, Undefined) : ev \in EventArgsR, sel \in SelectorArgsR}
  \cup {OffOp(ev, sel, h) : ev \in EventArgsR, sel \in SelectorArgsR, h \in HandlerArgsR}
  \cup {OffOp(ev, h, Undefined) : ev \in EventArgsR, h \in HandlerArgsR}

\* Commit that records the call
CommitCall(S0, c) ==
  \E S \in {S0} :
  /\ E' = Rename(S.E)
  /\ listeners' = S.L
  /\ calls' = S.X
  /\ fired' = RenameCounts(fired, S.E)
  /\ op' = c
  /\ UNCHANGED <<stack, log>>
  /\ UNCHANGED aside

OnR ==
  /\ stack = <<>>
  /\ \E this \in BoundNodes, c \in OnShapesR :
       /\ CanOn(Store, c.events)
       /\ CommitCall(on(Store, this, c.events, c.selector, c.data, c.handler, 0),
                     Call("on", this, c.events, c.selector, c.data, c.handler, NoNode))

OneR ==
  /\ stack = <<>>
  /\ \E this \in BoundNodes, c \in OneShapesR :
       /\ CanOn(Store, c.events)
       /\ CommitCall(one(Store, this, c.events, c.selector, c.data, c.handler),
                     Call("one", this, c.events, c.selector, c.data, c.handler, NoNode))

OffR ==
  /\ stack = <<>>
  /\ \E this \in BoundNodes, c \in OffShapesR :
       CommitCall(off(Store, this, c.events, c.selector, c.handler),
                  Call("off", this, c.events, c.selector, Undefined, c.handler, NoNode))

\* nodeEventHandler called as a listener: without a bucket for the event type
\* the read of __E__[eType] gives undefined and keys(undefined) throws
Listener(this, eType, target, stopped, reg) ==
  IF reg[this].def /\ Has(reg[this].ev, eType)
  THEN nodeEventHandler(this, eType, target, stopped, reg)
  ELSE [this |-> this, target |-> target, eType |-> eType, stale |-> FALSE,
        selectors |-> <<>>, selectorHandlersCopy |-> <<>>, path |-> <<>>,
        i |-> 0, j |-> 0, k |-> 0, handlers |-> <<>>,
        phase |-> "thrown", propagationStopped |-> stopped]

\* an event of type eType reaches node this: the browser calls the listener that
\* addEventListener has set for the type, if there is one
Deliver(this, eType, target, reg, L) ==
  IF eType \in L[this] THEN <<Listener(this, eType, target, FALSE, reg)>> ELSE <<>>

\* an event of any type occurs on the node or inside it
Occur ==
  /\ stack = <<>>
  /\ \E this \in BoundNodes, eType \in EventTypesR, target \in TargetsR :
       /\ IsInside(target, this)
       /\ stack' = Deliver(this, eType, target, E, listeners)
       /\ op' = Call("dispatch", this, <<eType>>, Undefined, Undefined, Undefined,
                     target)
  /\ log' = <<>>
  /\ calls' = <<>>
  /\ UNCHANGED <<E, listeners, fired>>
  /\ UNCHANGED aside

NextR == OnR \/ OneR \/ OffR \/ Occur \/ Step \/ Finish

SpecR == Init /\ [][NextR]_vars

\* ------------------------------------------------------------------------
\* Cycles with handlers that throw and handlers that dispatch events
\* ------------------------------------------------------------------------

\* how many cycles may run inside one another
MaxDepth == 2

\* what the log holds for a call that ended with an exception
Thrown == [t |-> "thrown", v |-> "boom"]

EventTypesC == {"click", "key"}

EventArgsC == {<<"click">>, <<"key">>}

HandlerArgsC == {Fn("trig"), Fn("boom"), False}

TargetsC == {"A", "C"}

\* the nodes that handlers are bound to: A and its descendant B
BoundNodesC == {"A", "B"}

\* the event reaches the listener of this and of no other bound node on the
\* path of target
OnlyListener(this, eType, target) ==
  \A n \in BoundNodesC \ {this} : IsInside(target, n) => eType \notin listeners[n]

\* on(events, handler) and on(events, '.item', handler)
OnShapesC ==
  {[events |-> ev, selector |-> h, data |-> Undefined, handler |-> Undefined] :
     ev \in EventArgsC, h \in HandlerArgsC}
  \cup
  {[events |-> ev, selector |-> Str(".item"), data |-> h, handler |-> Undefined] :
     ev \in EventArgsC, h \in HandlerArgsC}

\* one(events, handler) and one(events, '.item', handler), the handler false
\* or trig
OneShapesC ==
  {[events |-> ev, selector |-> h, data |-> Undefined, handler |-> Undefined] :
     ev \in EventArgsC, h \in {False, Fn("trig")}}
  \cup
  {[events |-> ev, selector |-> Str(".item"), data |-> h,
    handler |-> Undefined] : ev \in EventArgsC, h \in {False, Fn("trig")}}

OnC ==
  /\ stack = <<>>
  /\ \E this \in BoundNodesC, c \in OnShapesC :
       /\ CanOn(Store, c.events)
       /\ Commit(on(Store, this, c.events, c.selector, c.data, c.handler, 0))

OneC ==
  /\ stack = <<>>
  /\ \E this \in BoundNodesC, c \in OneShapesC :
       /\ CanOn(Store, c.events)
       /\ Commit(one(Store, this, c.events, c.selector, c.data, c.handler))

\* the browser delivers an event from outside any handler
DispatchC ==
  /\ stack = <<>>
  /\ \E this \in BoundNodesC, eType \in EventTypesC, target \in TargetsC :
       /\ IsInside(target, this)
       /\ OnlyListener(this, eType, target)
       /\ Deliver(this, eType, target, E, listeners) # <<>>
       /\ stack' = Deliver(this, eType, target, E, listeners)
  /\ log' = <<>>
  /\ calls' = <<>>
  /\ UNCHANGED <<E, listeners, fired, op>>
  /\ UNCHANGED aside

\* a dispatcher that catches what a handler throws and goes on with the loop
throwCaught(f) ==
  LET f1 == [f EXCEPT !.k = @ + 1] IN
  IF f.phase = "delegated" THEN seekDelegated(f1, FALSE, E) ELSE seekNonDelegated(f1)

\* handler.fn.call(...) throws: nodeEventHandler has no try, the exception
\* leaves it at once
throw(f) == [f EXCEPT !.phase = "thrown"]

\* the call of a handler that throws
Throw ==
  /\ stack # <<>>
  /\ Top.phase \in {"delegated", "nondelegated"}
  /\ CurHandler(Top).fn = Fn("boom")
  /\ stack' = [stack EXCEPT ![Len(stack)] = throw(Top)]
  /\ log' = Append(log, [id |-> CurHandler(Top).id, fn |-> CurHandler(Top).fn,
                         this |-> CurThis(Top), d |-> CurHandler(Top).d,
                         sel |-> CurSelector(Top), i |-> Top.i,
                         ret |-> Thrown, born |-> {}, gone |-> {},
                         depth |-> Len(stack)])
  /\ fired' = Bump(fired, CurHandler(Top))
  /\ calls' = <<>>
  /\ UNCHANGED <<E, listeners, op>>
  /\ UNCHANGED aside

\* the handler trig, called by the innermost cycle, dispatches an event of its
\* own that a listener of a bound node receives: a cycle inside the cycle
Trigger ==
  /\ stack # <<>>
  /\ Len(stack) < MaxDepth
  /\ Top.phase \in {"delegated", "nondelegated"}
  /\ CurHandler(Top).fn = Fn("trig")
  /\ \E this \in BoundNodesC, eType \in EventTypesC, target \in TargetsC :
       /\ IsInside(target, this)
       /\ OnlyListener(this, eType, target)
       /\ Deliver(this, eType, target, E, listeners) # <<>>
       /\ stack' = stack \o Deliver(this, eType, target, E, listeners)
  /\ calls' = <<>>
  /\ UNCHANGED <<E, listeners, log, fired, op>>
  /\ UNCHANGED aside

\* nodeEventHandler has returned or thrown
Exited(f) == f.phase \in {"done", "thrown"}

\* the cycle inside ends, by a return or by an exception the browser reports;
\* dispatchEvent returns to trig, trig returns, and the cycle outside goes on
Return ==
  /\ Len(stack) > 1
  /\ Exited(Top)
  /\ Advance(SubSeq(stack, 1, Len(stack) - 1), NoOp)

\* the exception of a handler leaves the outermost nodeEventHandler
Unwind ==
  /\ Len(stack) = 1
  /\ Top.phase = "thrown"
  /\ stack' = <<>>
  /\ log' = <<>>
  /\ calls' = <<>>
  /\ E' = Rename(E)
  /\ fired' = RenameCounts(fired, E)
  /\ UNCHANGED <<listeners, op>>
  /\ UNCHANGED aside

NextC ==
  OnC \/ OneC \/ DispatchC \/ Step \/ Throw \/ Trigger \/ Return \/ Unwind \/ Finish

SpecC == Init /\ [][NextC]_vars

\* ------------------------------------------------------------------------
\* Event objects that bubble through two bound nodes and are dispatched again
\* ------------------------------------------------------------------------

EventTypesE == {"click"}

EventArgsE == {<<"click">>}

HandlerArgsE == {Fn("cb1"), False}

\* the nodes that handlers are bound to: A and its descendant B
BoundNodesE == {"A", "B"}

TargetsE == {"A", "B", "C"}

\* on(events, handler) and on(events, '.item', handler)
OnShapesE ==
  {[events |-> ev, selector |-> h, data |-> Undefined, handler |-> Undefined] :
     ev \in EventArgsE, h \in HandlerArgsE}
  \cup
  {[events |-> ev, selector |-> Str(".item"), data |-> h, handler |-> Undefined] :
     ev \in EventArgsE, h \in HandlerArgsE}

OnE ==
  /\ stack = <<>>
  /\ \E this \in BoundNodesE, c \in OnShapesE :
       /\ CanOn(Store, c.events)
       /\ Commit(on(Store, this, c.events, c.selector, c.data, c.handler, 0))

OffE ==
  /\ stack = <<>>
  /\ \E this \in BoundNodesE, ev \in EventArgsE :
       Commit(off(Store, this, ev, Undefined, Undefined))

\* the nodes whose listener nodeEventHandler an event of type eType with this
\* target reaches while it bubbles, the nearest first
Receivers(eType, target, L) ==
  SelectSeq(<<target>> \o parentsUntil(target, NoNode), LAMBDA n : eType \in L[n])

\* the receivers that come after node this
ReceiversAfter(this, eType, target, L) ==
  SelectSeq(parentsUntil(this, NoNode), LAMBDA n : eType \in L[n])

\* a script creates an event object and dispatches it: the browser calls
\* nodeEventHandler on the nearest node that listens
DispatchE ==
  /\ stack = <<>>
  /\ \E eType \in EventTypesE, target \in TargetsE :
       /\ Receivers(eType, target, listeners) # <<>>
       /\ eventObject' = [type |-> eType, propagationStopped |-> FALSE]
       /\ stack' = <<Listener(Receivers(eType, target, listeners)[1], eType, target,
                              FALSE, E)>>
  /\ log' = <<>>
  /\ calls' = <<>>
  /\ UNCHANGED <<E, listeners, fired, op, shared, attributes>>

\* the script dispatches the event object it has kept once more: the object
\* still has the propagationStopped property that line 3619 gave it
Redispatch ==
  /\ stack = <<>>
  /\ eventObject # NoEvent
  /\ \E target \in TargetsE :
       /\ Receivers(eventObject.type, target, listeners) # <<>>
       /\ stack' = <<Listener(Receivers(eventObject.type, target, listeners)[1],
                              eventObject.type, target,
                              eventObject.propagationStopped, E)>>
  /\ log' = <<>>
  /\ calls' = <<>>
  /\ UNCHANGED <<E, listeners, fired, op>>
  /\ UNCHANGED aside

\* nodeEventHandler returns to the browser, which calls the listener of the
\* next node that listens unless _stopPropagation() was called in this dispatch
\* (line 3618); the event object keeps its propagationStopped property
FinishE ==
  /\ Len(stack) = 1
  /\ Top.phase = "done"
  /\ \E native \in {Top.propagationStopped /\ ~eventObject.propagationStopped} :
     \E next \in {ReceiversAfter(Top.this, Top.eType, Top.target, listeners)} :
       IF ~native /\ next # <<>>
       THEN /\ stack' = <<Listener(next[1], Top.eType, Top.target,
                                   Top.propagationStopped, E)>>
            /\ UNCHANGED <<E, fired>>
       ELSE /\ stack' = <<>>
            /\ E' = Rename(E)
            /\ fired' = RenameCounts(fired, E)
  /\ eventObject' = [eventObject EXCEPT !.propagationStopped = Top.propagationStopped]
  /\ log' = <<>>
  /\ calls' = <<>>
  /\ UNCHANGED <<listeners, op, shared, attributes>>

NextE == OnE \/ OffE \/ DispatchE \/ Redispatch \/ Step \/ FinishE

SpecE == Init /\ [][NextE]_vars

\* ------------------------------------------------------------------------
\* on() with strings of several event types
\* ------------------------------------------------------------------------

\* how many atoms (type names and spaces) an events string may have
MaxLen == 4

Space == " "

NamesT == {"click", "key"}

\* the events strings passed to on(): type names and spaces in any order, two
\* names never without a space between them
StringsT ==
  {str \in UNION {[1..n -> NamesT \cup {Space}] : n \in 0..MaxLen} :
     \A x \in 1..(Len(str) - 1) : ~(str[x] \in NamesT /\ str[x + 1] \in NamesT)}

\* String.prototype.split(' '): a token ends at every space and at the end of
\* the string; a token without a name in it is the empty string
RECURSIVE splitLoop(_, _, _, _)
splitLoop(str, x, tokens, token) ==
  IF x > Len(str) THEN Append(tokens, token)
  ELSE IF str[x] = Space
       THEN splitLoop(str, x + 1, Append(tokens, token), "")
       ELSE splitLoop(str, x + 1, tokens, str[x])

split(str) == splitLoop(str, 1, <<>>, "")

\* on(events, handler) and on(events, '.item', data, handler)
OnShapesT ==
  {[selector |-> Fn("cb1"), data |-> Undefined, handler |-> Undefined]}
  \cup
  {[selector |-> Str(".item"), data |-> d, handler |-> h] :
     d \in DataArgsR, h \in HandlerArgsR}

\* a call of node.on(events, ...) with an events string; op records the string
OnT ==
  /\ stack = <<>>
  /\ \E this \in BoundNodes, str \in StringsT, c \in OnShapesT :
       \E events \in {split(str)} :
         /\ CanOn(Store, events)
         /\ CommitCall(on(Store, this, events, c.selector, c.data, c.handler, 0),
                       Call("on", this, str, c.selector, c.data, c.handler, NoNode))

\* a call of node.off() or node.off(type)
OffT ==
  /\ stack = <<>>
  /\ \E this \in BoundNodes, events \in {<<>>} \cup {<<t>> : t \in NamesT} :
       CommitCall(off(Store, this, events, Undefined, Undefined),
                  Call("off", this, events, Undefined, Undefined, Undefined, NoNode))

NextT == OnT \/ OffT

SpecT == Init /\ [][NextT]_vars

\* ------------------------------------------------------------------------
\* Element.prototype.attr
\* ------------------------------------------------------------------------

Null == [t |-> "null", v |-> ""]

\* an object of name-value pairs, its properties in insertion order
Obj(entries) == [t |-> "object", v |-> entries]

\* the element itself, as a return value
This == [t |-> "object", v |-> "this"]

AttrNames == {"data-a", "data-b"}

\* the values passed to attr()
AttrValues == {Str("a"), Str("b"), Null, Undefined}

\* the objects passed to attr(): one or two pairs with different names
AttrObjects ==
  {Obj(<<[key |-> n, val |-> v]>>) : n \in AttrNames, v \in AttrValues}
  \cup
  {Obj(<<[key |-> nm[1], val |-> v], [key |-> nm[2], val |-> w]>>) :
     nm \in {p \in AttrNames \X AttrNames : p[1] # p[2]},
     v \in AttrValues, w \in AttrValues}

\* the conversion of the value argument of setAttribute to a DOMString
ToDOMString(value) ==
  IF value.t = "string" THEN value.v
  ELSE IF value = Null THEN "null"
  ELSE "undefined"

\* Element.setAttribute(name, value) of the DOM
setAttribute(attrs, name, value) == Put(attrs, name, ToDOMString(value))

\* Element.getAttribute(name) of the DOM
getAttribute(attrs, name) == IF Has(attrs, name) THEN Str(Get(attrs, name)) ELSE Null

\* Element.hasAttribute(name) of the DOM
hasAttribute(attrs, name) == Has(attrs, name)

\* Element.removeAttribute(name) of the DOM
removeAttribute(attrs, name) == Delete(attrs, name)

\* for (value in attrib) this.setAttribute(value, attrib[value])
RECURSIVE setMultiple(_, _, _)
setMultiple(attrs, entries, x) ==
  IF x > Len(entries) THEN attrs
  ELSE setMultiple(setAttribute(attrs, entries[x].key, entries[x].val), entries, x + 1)

\* ElementPrototype.attr: the attributes after the call and what it returns
attr(attrs, attrib, value) ==
  IF isUndefined(value)
  THEN IF typeofString(attrib)
       THEN [attrs |-> attrs, ret |-> getAttribute(attrs, attrib.v)]
       ELSE [attrs |-> setMultiple(attrs, attrib.v, 1), ret |-> This]
  ELSE [attrs |-> setAttribute(attrs, attrib.v, value), ret |-> This]

\* a call of attr as op records it; args is the number of arguments passed
AttrCall(args, attrib, value, ret) ==
  [op |-> "attr", args |-> args, attrib |-> attrib, value |-> value, ret |-> ret]

\* el.attr(name), el.attr(name, value) or el.attr(object)
Attr ==
  /\ stack = <<>>
  /\ \E c \in {[args |-> 1, attrib |-> Str(n), value |-> Undefined] : n \in AttrNames}
            \cup {[args |-> 2, attrib |-> Str(n), value |-> v] :
                    n \in AttrNames, v \in AttrValues}
            \cup {[args |-> 1, attrib |-> o, value |-> Undefined] : o \in AttrObjects} :
       \E R \in {attr(attributes, c.attrib, c.value)} :
         /\ attributes' = R.attrs
         /\ op' = AttrCall(c.args, c.attrib, c.value, R.ret)
  /\ UNCHANGED <<E, listeners, calls, stack, log, fired, eventObject, shared>>

\* el.removeAttr(name)
RemoveAttr ==
  /\ stack = <<>>
  /\ \E n \in AttrNames :
       /\ attributes' = removeAttribute(attributes, n)
       /\ op' = [op |-> "removeAttr", args |-> 1, attrib |-> Str(n),
                 value |-> Undefined, ret |-> This]
  /\ UNCHANGED <<E, listeners, calls, stack, log, fired, eventObject, shared>>

NextA == Attr \/ RemoveAttr

SpecA == Init /\ [][NextA]_vars

\* ------------------------------------------------------------------------
\* Node.prototype.clone with data and events: copyDataAndEvents
\* ------------------------------------------------------------------------

\* the node that is cloned and the clone
Original == "A"

TheClone == "A2"

Other(node) == IF node = Original THEN TheClone ELSE Original

\* the (event type, selector key) places of a registry
Places(eventHandlers) ==
  UNION {{[type |-> eventHandlers[x].key, key |-> eventHandlers[x].val[y].key] :
            y \in 1..Len(eventHandlers[x].val)} : x \in 1..Len(eventHandlers)}

\* for (data in events) nodeB.addEventListener(data, nodeEventHandler)
RECURSIVE forInEvents(_, _, _, _)
forInEvents(S, nodeB, types, x) ==
  IF x > Len(types) THEN S
  ELSE forInEvents(addEventListener(S, nodeB, types[x]), nodeB, types, x + 1)

\* extendDeep({}, events): a plain object is copied key by key into a new
\* object (lines 225-227), any other value is assigned as it is (line 228).
\* The arrays of handlers are no plain objects (isPlainObject, line 592), so
\* the copy has the keys of events and refers to the arrays events refers to.
extendDeep(events) ==
  [x \in 1..Len(events) |->
     [key |-> events[x].key,
      val |-> [y \in 1..Len(events[x].val) |->
                 [key |-> events[x].val[y].key, val |-> events[x].val[y].val]]]]

\* the events part of copyDataAndEvents(nodeA, nodeB) for a node without
\* bound descendants
copyDataAndEvents(S, nodeA, nodeB) ==
  IF ~S.E[nodeA].def THEN S
  ELSE forInEvents([S EXCEPT !.E[nodeB] = [def |-> TRUE,
                                          ev |-> extendDeep(S.E[nodeA].ev)],
                            !.L[nodeB] = {}],
                   nodeB, keys(S.E[nodeA].ev), 1)

\* The arrays at the places of links are one object in the registries of node
\* and of other. reg is the registries after a call of on() or off() on node:
\* push and splice have changed such an array in place, so other sees what node
\* stores there; where node has deleted the key of an emptied array, other
\* still refers to the array, which is empty, and is alone to do so.
Alias(reg, node, other, links) ==
  LET kept == {l \in links : Has(reg[node].ev, l.type)
                               /\ Has(Get(reg[node].ev, l.type), l.key)}
      seen(t, k, own) ==
        IF [type |-> t, key |-> k] \in kept THEN Get(Get(reg[node].ev, t), k)
        ELSE IF [type |-> t, key |-> k] \in links THEN <<>>
        ELSE own
  IN [E |-> [reg EXCEPT ![other].ev =
               [x \in 1..Len(@) |->
                  [key |-> @[x].key,
                   val |-> [y \in 1..Len(@[x].val) |->
                              [key |-> @[x].val[y].key,
                               val |-> seen(@[x].key, @[x].val[y].key,
                                            @[x].val[y].val)]]]]],
      links |-> kept]

EventArgsK == {<<"click">>}

HandlerArgsK == {Fn("cb1"), False}

\* on(events, handler) and on(events, '.item', handler)
OnShapesK ==
  {[events |-> ev, selector |-> h, data |-> Undefined, handler |-> Undefined] :
     ev \in EventArgsK, h \in HandlerArgsK}
  \cup
  {[events |-> ev, selector |-> Str(".item"), data |-> h, handler |-> Undefined] :
     ev \in EventArgsK, h \in HandlerArgsK}

\* off(), off(events), off(events, '.item'), off(events, handler)
OffShapesK ==
  {OffOp(<<>>, Undefined, Undefined)}
  \cup {OffOp(ev, Undefined, Undefined) : ev \in EventArgsK}
  \cup {OffOp(ev, Str(".item"), Undefined) : ev \in EventArgsK}
  \cup {OffOp(ev, h, Undefined) : ev \in EventArgsK, h \in HandlerArgsK}

\* the state after a call on node this that gives the store S0; the record
\* objects keep their names, which the two registries share
CommitK(S0, this, c) ==
  \E S \in {S0} : \E R \in {Alias(S.E, this, Other(this), shared)} :
  /\ E' = R.E
  /\ shared' = R.links
  /\ listeners' = S.L
  /\ calls' = S.X
  /\ op' = c
  /\ UNCHANGED <<stack, log, fired, eventObject, attributes>>

\* the nodes that exist: the original, and the clone once it is made
NodesK == {Original} \cup {n \in {TheClone} : E[n].def}

OnK ==
  /\ stack = <<>>
  /\ \E this \in NodesK, c \in OnShapesK :
       /\ CanOn(Store, c.events)
       /\ CommitK(on(Store, this, c.events, c.selector, c.data, c.handler, 0), this,
                  Call("on", this, c.events, c.selector, c.data, c.handler, NoNode))

OffK ==
  /\ stack = <<>>
  /\ \E this \in NodesK, c \in OffShapesK :
       CommitK(off(Store, this, c.events, c.selector, c.handler), this,
               Call("off", this, c.events, c.selector, Undefined, c.handler, NoNode))

\* A2 = A.clone(true), for a node A that has the __E__ property; a clone made
\* before is dropped
Clone ==
  /\ stack = <<>>
  /\ E[Original].def
  /\ \E S \in {copyDataAndEvents(Store, Original, TheClone)} :
       /\ E' = S.E
       /\ listeners' = S.L
       /\ calls' = S.X
       /\ shared' = Places(S.E[Original].ev)
  /\ op' = Call("clone", Original, <<>>, Undefined, Undefined, Undefined, NoNode)
  /\ UNCHANGED <<stack, log, fired, eventObject, attributes>>

NextK == OnK \/ OffK \/ Clone

SpecK == Init /\ [][NextK]_vars

\* ------------------------------------------------------------------------
\* Cycles for every target, over handlers registered with data
\* ------------------------------------------------------------------------

NextO == OnR \/ OneR \/ OffR \/ Dispatch \/ Step \/ Finish

SpecO == Init /\ [][NextO]_vars

\* ------------------------------------------------------------------------
\* Structure of the state
\* ------------------------------------------------------------------------

TypeOK ==
  /\ \A n \in Nodes : E[n].def \in BOOLEAN
  /\ \A r \in RegRecs(E) \cup StackRecs : r.id \in Ids /\ r.o \in {0, 1}
  /\ Len(stack) <= 1

\* ------------------------------------------------------------------------
\* Vocabulary of the properties
\* ------------------------------------------------------------------------

IdsOf(array) == [x \in 1..Len(array) |-> array[x].id]

\* a record as it was registered, without the name of the object
Content(array) == [x \in 1..Len(array) |-> [fn |-> array[x].fn, d |-> array[x].d]]

IsPrefix(a, b) == Len(a) <= Len(b) /\ \A x \in 1..Len(a) : a[x] = b[x]

\* the array stored under (node, eventType, selector), <<>> when there is none
Stored(reg, node, eventType, selector) ==
  IF Has(reg[node].ev, eventType) /\ Has(Get(reg[node].ev, eventType), selector)
  THEN Get(Get(reg[node].ev, eventType), selector)
  ELSE <<>>

EventTypes == UNION {Range(ev) : ev \in EventArgs} \ {""}

SelectorKeys == {""} \cup {sel.v : sel \in SelectorArgs}

Finished == stack # <<>> /\ Top.phase = "done"

\* the calls of the running cycle made for selector key sel at path position i
CallsFor(sel, i) == SelectSeq(log, LAMBDA e : e.sel = sel /\ e.i = i)

CallsNonDelegated == SelectSeq(log, LAMBDA e : e.sel = "")

\* a delegated handler has returned false at a path position before i
StoppedBefore(i) ==
  \E x \in 1..Len(log) : log[x].sel # "" /\ log[x].ret = False /\ log[x].i < i

StoppedInCycle == \E x \in 1..Len(log) : log[x].ret = False

\* the path positions of f whose handlers the finished cycle had to call
Visited(f) == {i \in 0..(Len(f.path) - 1) : ~StoppedBefore(i)}

\* the nodes from the target up to, but without, the bound node
BubbleNodes(target, bound) ==
  {n \in Nodes : n # bound /\ IsInside(target, n) /\ IsInside(n, bound)}

\* ------------------------------------------------------------------------
\* C1: handlers registered under one (node, event type, selector key) are
\* invoked in the order of their registration
\* ------------------------------------------------------------------------

\* a step that makes a stored array longer keeps what was stored as its head
C1_Appended ==
  \A n \in BoundNodes, t \in EventTypes, sel \in SelectorKeys :
    Len(Stored(E', n, t, sel)) > Len(Stored(E, n, t, sel))
      => IsPrefix(Content(Stored(E, n, t, sel)), Content(Stored(E', n, t, sel)))

\* the arrays a cycle walks are the stored ones, as they are when it copies them
C1_Copied ==
  /\ (stack = <<>> /\ stack' # <<>>)
       => \A y \in 1..Len(stack'[1].selectorHandlersCopy) :
            stack'[1].selectorHandlersCopy[y].val =
              Stored(E, stack'[1].this, stack'[1].eType,
                     stack'[1].selectorHandlersCopy[y].key)
  /\ (/\ stack' # <<>>
      /\ stack'[Len(stack')].phase = "nondelegated"
      /\ (stack = <<>> \/ Top.phase = "delegated"))
       => stack'[Len(stack')].handlers =
            Stored(E', stack'[Len(stack')].this, stack'[Len(stack')].eType, "")

\* a finished cycle has called, for each path node it visited and each selector
\* the node matches, the copied records in their order, and likewise for ""
C1_CalledInOrder ==
  Finished =>
    /\ \A i \in Visited(Top), j \in 1..Len(Top.selectors) :
         matches(Top.path[i + 1], Top.selectors[j])
           => IdsOf(CallsFor(Top.selectors[j], i)) =
                IdsOf(Get(Top.selectorHandlersCopy, Top.selectors[j]))
    /\ Top.handlers # <<>> => IdsOf(CallsNonDelegated) = IdsOf(Top.handlers)

\* C1: for on() calls on the same (node, type, selector key) with no off() in
\* between, a dispatch that reaches the key invokes the callbacks in exactly the
\* order of their registration
C1_RegistrationOrder ==
  [][C1_Appended /\ C1_Copied]_vars /\ []C1_CalledInOrder

\* a finished cycle that called two different functions stored under one key
C1_Witness ==
  /\ Finished
  /\ \E x, y \in 1..Len(log) :
       /\ x < y
       /\ log[x].sel = log[y].sel /\ log[x].this = log[y].this
       /\ log[x].fn # log[y].fn
       /\ \A z \in 1..Len(log) : log[z].gone = {} /\ log[z].born = {}

\* ------------------------------------------------------------------------
\* C2: a non-delegated handler set by one()
\* ------------------------------------------------------------------------

\* the record was set by one() and is still to be invoked
Armed(r) == r.o = 1

\* a non-delegated one() record is invoked at most once, is stored only as long
\* as it was not invoked, and the cycle that copied it has invoked it
C2_OnceState ==
  /\ \A x \in 1..Len(log) : log[x].sel = "" => fired[log[x].id] <= 1
  /\ \A n \in BoundNodes, t \in EventTypes :
       \A r \in Range(Stored(E, n, t, "")) : Armed(r) => fired[r.id] = 0
  /\ Finished =>
       \A r \in Range(Top.handlers) : Armed(r) => fired[r.id] = 1

\* the call of a non-delegated handler that itself changes nothing leaves every
\* record with another function where it is
C2_OthersStay ==
  (/\ stack # <<>>
   /\ Top.phase = "nondelegated"
   /\ CallbackOps(CurHandler(Top).fn) = {NoOp})
    => \A r \in RegRecs(E) : r.fn # CurHandler(Top).fn => r \in RegRecs(E')

\* C2: a non-delegated one() handler next to on() handlers with other callbacks
\* is invoked in the first cycle that reaches the non-delegated step and in no
\* later one, is out of the registry once invoked, and the others keep firing
C2_OnceNonDelegated ==
  [][C2_OthersStay /\ C1_Copied]_vars /\ []C2_OnceState

\* a finished cycle that called a one() record and an on() record stored under
\* "": the one() record is gone, the on() record is still stored
C2_Witness ==
  /\ Finished
  /\ \E x, y \in 1..Len(log) :
       /\ log[x].sel = "" /\ log[y].sel = ""
       /\ log[x].fn # log[y].fn
       /\ fired[log[x].id] = 1
       /\ log[x].id \notin {r.id : r \in RegRecs(E)}
       /\ log[y].id \in {r.id : r \in RegRecs(E)}

\* ------------------------------------------------------------------------
\* C3: a handler set by one() under a delegated selector
\* ------------------------------------------------------------------------

\* C3: a one() handler stored under a delegated selector is invoked at most
\* once over its lifetime, also when two path nodes match its selector
C3_DelegatedOnceAtMostOnce ==
  \A x \in 1..Len(log) : log[x].sel # "" => fired[log[x].id] <= 1

\* ------------------------------------------------------------------------
\* C4: off() called by a handler of the running cycle
\* ------------------------------------------------------------------------

\* how often the running cycle has called the record id at path position i
TimesCalled(id, i) ==
  Cardinality({x \in 1..Len(log) : log[x].id = id /\ log[x].i = i})

\* a finished cycle has called every copied record exactly once for each path
\* node it visited that matches the record's selector, every copied
\* non-delegated record exactly once, and no record it had not copied
C4_CopiedCalledOnce ==
  Finished =>
    /\ \A i \in 0..(Len(Top.path) - 1), j \in 1..Len(Top.selectors) :
         \A r \in Range(Get(Top.selectorHandlersCopy, Top.selectors[j])) :
           TimesCalled(r.id, i) =
             IF i \in Visited(Top) /\ matches(Top.path[i + 1], Top.selectors[j])
             THEN 1 ELSE 0
    /\ \A r \in Range(Top.handlers) : TimesCalled(r.id, Len(Top.path)) = 1
    /\ \A x \in 1..Len(log) : log[x].id \in {r.id : r \in FrameRecs(Top)}

\* a cycle copies stored records only: what off() removed cannot fire later
C4_OnlyStoredCopied ==
  (stack = <<>> /\ stack' # <<>>) => FrameRecs(stack'[1]) \subseteq RegRecs(E')

\* C4: when a handler calls off() during a cycle, every record already copied
\* for the cycle is still invoked exactly as often as without the off(); the
\* detached records are out of the registry and do not fire in later cycles
C4_OffDuringCycle ==
  [][C4_OnlyStoredCopied]_vars /\ []C4_CopiedCalledOnce

\* a finished cycle in which a handler detached a record that the cycle had
\* copied and that the cycle invoked afterwards all the same
C4_Witness ==
  /\ Finished
  /\ \E x, y \in 1..Len(log) :
       /\ x < y
       /\ log[y].id \in log[x].gone
       /\ log[y].id # log[x].id

\* ------------------------------------------------------------------------
\* C5: on() called by a handler of the running cycle
\* ------------------------------------------------------------------------

\* C5: a handler attached by another handler during a cycle of (node, type)
\* is not invoked within that cycle, whatever key it is attached under
C5_AttachedNotInvoked ==
  \A x, y \in 1..Len(log) : x < y => log[y].id \notin log[x].born

\* ------------------------------------------------------------------------
\* C6: a delegated handler returns false
\* ------------------------------------------------------------------------

\* C6: after a delegated handler invoked for a path node has returned false,
\* no handler is invoked for a later path node and no non-delegated handler of
\* the bound node is invoked in that cycle
C6_FalseStops ==
  \A x, y \in 1..Len(log) :
    (x < y /\ log[x].sel # "" /\ log[x].ret = False)
      => (log[y].sel # "" /\ log[y].i = log[x].i)

\* a finished cycle stopped by a delegated handler at the target although a
\* later path node matches a stored selector and a non-delegated handler is
\* stored
C6_Witness ==
  /\ Finished
  /\ Len(Top.path) > 1
  /\ \E x \in 1..Len(log) : log[x].sel # "" /\ log[x].ret = False /\ log[x].i = 0
  /\ \E j \in 1..Len(Top.selectors) : matches(Top.path[2], Top.selectors[j])
  /\ Stored(E, Top.this, Top.eType, "") # <<>>

\* ------------------------------------------------------------------------
\* C7: delegated matching
\* ------------------------------------------------------------------------

\* delegated handlers are invoked on matching nodes of the bubble path only
C7_OnPathOnly ==
  stack # <<>> =>
    \A x \in 1..Len(log) :
      log[x].sel # "" =>
        /\ log[x].this \in BubbleNodes(Top.target, Top.this)
        /\ log[x].this # Top.this
        /\ matches(log[x].this, log[x].sel)

\* how often the running cycle has called the record id on the node
TimesCalledOn(id, node) ==
  Cardinality({x \in 1..Len(log) : log[x].id = id /\ log[x].this = node})

\* without a stop, every copied delegated record is invoked exactly once for
\* each node of the bubble path that matches its selector
C7_OncePerMatch ==
  (Finished /\ ~StoppedInCycle) =>
    \A n \in BubbleNodes(Top.target, Top.this), j \in 1..Len(Top.selectors) :
      \A r \in Range(Get(Top.selectorHandlersCopy, Top.selectors[j])) :
        TimesCalledOn(r.id, n) =
          IF hasMatches(n) /\ matches(n, Top.selectors[j]) THEN 1 ELSE 0

\* C7: a delegated handler is invoked once for each bubble-path node matching
\* its selector, with that node as the matched node, and never for the bound
\* node or for a path node that does not match
C7_DelegatedMatching == C7_OnPathOnly /\ C7_OncePerMatch

\* the chain A (bound) > B > C (target), one selector that matches B only:
\* the finished cycle made one call, on B
C7_Witness ==
  /\ Finished
  /\ Top.this = "A" /\ Top.target = "C"
  /\ Top.selectors = <<".b">>
  /\ Len(log) = 1
  /\ log[1].this = "B"

\* ------------------------------------------------------------------------
\* C8: the node listens to an event type exactly while it has a bucket for it
\* ------------------------------------------------------------------------

HasBucket(reg, node, eventType) == Has(reg[node].ev, eventType)

\* the add/removeEventListener calls of the last operation for (node, type)
CallsOn(X, node, eventType) ==
  SelectSeq(X, LAMBDA c : c.node = node /\ c.type = eventType)

C8_Listening ==
  \A n \in Nodes : listeners[n] = {t \in EventTypes : HasBucket(E, n, t)}

\* each step calls addEventListener once where a bucket comes into existence,
\* removeEventListener once where one disappears, and neither anywhere else
C8_CalledOnce ==
  \A n \in Nodes, t \in EventTypes :
    LET made == CallsOn(calls', n, t) IN
    /\ (~HasBucket(E, n, t) /\ HasBucket(E', n, t))
         => (Len(made) = 1 /\ made[1].call = "addEventListener")
    /\ (HasBucket(E, n, t) /\ ~HasBucket(E', n, t))
         => (Len(made) = 1 /\ made[1].call = "removeEventListener")
    /\ (HasBucket(E, n, t) <=> HasBucket(E', n, t)) => made = <<>>

\* C8: a node is subscribed to a type iff its registry has a bucket for the
\* type; subscribe is called once each time the bucket comes into existence
\* and unsubscribe once each time it disappears
C8_Subscription == [][C8_CalledOnce]_vars /\ []C8_Listening

\* a handler of a running cycle has attached a handler after the bucket of the
\* cycle's type was deleted: the node listens again
C8_Witness ==
  /\ stack # <<>>
  /\ Top.stale
  /\ HasBucket(E, Top.this, Top.eType)
  /\ Len(calls) = 1 /\ calls[1].call = "addEventListener"

\* ------------------------------------------------------------------------
\* C9: the registry holds no empty structure
\* ------------------------------------------------------------------------

\* C9: every selector key of a bucket maps to at least one record and every
\* event type of a registry maps to a bucket with at least one selector key
C9_NoEmptyStructure ==
  \A n \in Nodes :
    \A x \in 1..Len(E[n].ev) :
      /\ Len(E[n].ev[x].val) > 0
      /\ \A y \in 1..Len(E[n].ev[x].val) : Len(E[n].ev[x].val[y].val) > 0

\* the removal of a one() record by the dispatcher has deleted a selector key,
\* and another key of the bucket is left
C9_Witness ==
  /\ stack # <<>>
  /\ log # <<>>
  /\ log[Len(log)].gone = {}
  /\ log[Len(log)].id \notin {r.id : r \in RegRecs(E)}
  /\ HasBucket(E, Top.this, Top.eType)
  /\ ~Has(Get(E[Top.this].ev, Top.eType), log[Len(log)].sel)
  /\ Len(Get(E[Top.this].ev, Top.eType)) > 0

\* ------------------------------------------------------------------------
\* C10: on() does not deduplicate
\* ------------------------------------------------------------------------

\* how many records of the array carry the function fn
CountFn(array, fn) == Cardinality({x \in 1..Len(array) : array[x].fn = fn})

\* an on() or one() call for one event type stores one more record, also when
\* a record with the same function is stored under the same key already
C10_OneMore ==
  (On \/ One) =>
    /\ Cardinality(RegRecs(E')) = Cardinality(RegRecs(E)) + 1
    /\ \A n \in BoundNodes, t \in EventTypes, sel \in SelectorKeys :
         \A fn \in UserFns \cup {returnFalse} :
           CountFn(Stored(E', n, t, sel), fn) >= CountFn(Stored(E, n, t, sel), fn)

\* a finished cycle has called a function stored under "" as often as records
\* with the function were copied
C10_AllCalled ==
  Finished =>
    \A fn \in UserFns \cup {returnFalse} :
      CountFn(CallsNonDelegated, fn) = CountFn(Top.handlers, fn)

\* C10: on() twice with the same callback, selector and event type leaves two
\* separate records, and one dispatch reaching the key invokes the callback twice
C10_NoDedupe == [][C10_OneMore]_vars /\ []C10_AllCalled

\* a finished cycle that called one function twice for two records stored
\* under the same key
C10_Witness ==
  /\ Finished
  /\ \E x, y \in 1..Len(log) :
       /\ x < y
       /\ log[x].fn = log[y].fn
       /\ log[x].sel = log[y].sel /\ log[x].this = log[y].this
       /\ log[x].id # log[y].id

\* ------------------------------------------------------------------------
\* Vocabulary of the properties of recorded calls (SpecR)
\* ------------------------------------------------------------------------

\* the step is a call of name made from outside any handler
Did(name) == stack = <<>> /\ op'.op = name

\* the function a handler argument stands for
FnOf(h) == IF h = False THEN returnFalse ELSE h

\* the callback of an on()/one() call, in whichever argument it was passed
OnCallback(c) ==
  FnOf(IF ~isUndefined(c.handler) THEN c.handler
       ELSE IF isUndefined(c.data) THEN c.selector ELSE c.data)

\* the records of the array that carry the function fn
WithFn(array, fn) == SelectSeq(array, LAMBDA r : r.fn = fn)

WithoutFn(array, fn) == SelectSeq(array, LAMBDA r : r.fn # fn)

\* the selector keys that can occur in a bucket of SpecR
SelectorKeysR == {sel.v : sel \in SelectorArgsR}

\* what the registries hold; a registry object without event types holds
\* what a node without registry object holds
Holds(reg) == [n \in Nodes |-> reg[n].ev]

\* the store after the step
StoreAfter == [E |-> E', L |-> listeners', X |-> <<>>]

\* ------------------------------------------------------------------------
\* C11: on() followed by off() with the same arguments
\* ------------------------------------------------------------------------

\* C11: after on(node, type, selector, cb) with no record of cb stored
\* under (node, type, selector) before, off(node, type, selector, cb) gives
\* the registry and the subscriptions of before the on() back; if the on()
\* created the bucket, the off() deletes it, calls removeEventListener once,
\* and an event of the type then calls no handler
C11_RoundTrip ==
  [][(/\ Did("on")
      /\ typeofString(op'.selector)
      /\ \A x \in 1..Len(op'.events) :
           WithFn(Stored(E, op'.node, op'.events[x], op'.selector.v),
                  OnCallback(op')) = <<>>)
       => LET R == off(StoreAfter, op'.node, op'.events, op'.selector,
                       OnCallback(op'))
          IN /\ Holds(Rename(R.E)) = Holds(E)
             /\ R.L = listeners
             /\ \A x \in 1..Len(op'.events) :
                  ~HasBucket(E, op'.node, op'.events[x])
                    => /\ ~HasBucket(R.E, op'.node, op'.events[x])
                       /\ CallsOn(R.X, op'.node, op'.events[x])
                            = <<[call |-> "removeEventListener",
                                 node |-> op'.node, type |-> op'.events[x]]>>
                       /\ \A target \in Nodes :
                            Deliver(op'.node, op'.events[x], target, R.E, R.L)
                              = <<>>]_vars

\* ------------------------------------------------------------------------
\* Vocabulary of the properties of off() calls
\* ------------------------------------------------------------------------

\* the records of an array without the names of their objects
Plain(array) ==
  [x \in 1..Len(array) |-> [fn |-> array[x].fn, d |-> array[x].d, o |-> array[x].o]]

\* an off() call that passes a callback in the place of the selector
CallbackOnly(c) == ~isUndefined(c.selector) /\ ~typeofString(c.selector)

\* the callback of an off() call, Undefined when it passes none
OffCallback(c) == FnOf(IF CallbackOnly(c) THEN c.selector ELSE c.handler)

\* the event types an off() call names: all of them when it names none
OffTypes(c) == IF c.events = <<>> THEN EventTypesR ELSE Range(c.events)

\* the selector keys an off() call names: all of them when it passes no string
OffKeys(c) == IF typeofString(c.selector) THEN {c.selector.v} ELSE SelectorKeysR

\* a stored record is what the off() call names
Matched(c) ==
  \E t \in OffTypes(c), key \in OffKeys(c) :
    \E r \in Range(Stored(E, c.node, t, key)) :
      isUndefined(OffCallback(c)) \/ r.fn = OffCallback(c)

\* ------------------------------------------------------------------------
\* C12: off() without arguments
\* ------------------------------------------------------------------------

\* C12: off() leaves the node's registry without event type, calls
\* removeEventListener once for every type the node listened to, and no event
\* on the node calls a handler afterwards
C12_OffAll ==
  [][(Did("off") /\ op'.events = <<>>)
       => /\ E'[op'.node].ev = <<>>
          /\ listeners'[op'.node] = {}
          /\ \A t \in EventTypesR :
               CallsOn(calls', op'.node, t) =
                 IF t \in listeners[op'.node]
                 THEN <<[call |-> "removeEventListener", node |-> op'.node,
                         type |-> t]>>
                 ELSE <<>>
          /\ \A t \in EventTypesR, target \in Nodes :
               Deliver(op'.node, t, target, E', listeners') = <<>>
          /\ \A n \in Nodes \ {op'.node} :
               E'[n] = E[n] /\ listeners'[n] = listeners[n]]_vars

\* off() has removed the handlers of two event types
C12_Witness ==
  /\ stack = <<>>
  /\ op.op = "off" /\ op.events = <<>>
  /\ E[op.node].ev = <<>>
  /\ {calls[x].type : x \in 1..Len(calls)} = EventTypesR
  /\ \A x \in 1..Len(calls) : calls[x].call = "removeEventListener"

\* ------------------------------------------------------------------------
\* C13: off() with a selector string
\* ------------------------------------------------------------------------

\* C13: off(type, s, cb) with s a string, "" included, leaves the records
\* under every other selector key of the type, and every other type, as they are
C13_OnlyThatSelector ==
  [][(Did("off") /\ typeofString(op'.selector) /\ ~isUndefined(op'.handler))
       => \A t \in EventTypesR, key \in SelectorKeysR :
            (t \notin Range(op'.events) \/ key # op'.selector.v)
              => Plain(Stored(E', op'.node, t, key))
                   = Plain(Stored(E, op'.node, t, key))]_vars

\* ------------------------------------------------------------------------
\* C14: off() with a callback and no selector
\* ------------------------------------------------------------------------

\* C14: off(type, cb) removes from every selector key of the type the records
\* whose function is cb, whatever their data and their one() flag, and leaves
\* every other record where it is
C14_OffByCallback ==
  [][(Did("off") /\ CallbackOnly(op'))
       => \A t \in EventTypesR, key \in SelectorKeysR :
            Plain(Stored(E', op'.node, t, key)) =
              IF t \in Range(op'.events)
              THEN Plain(WithoutFn(Stored(E, op'.node, t, key), OffCallback(op')))
              ELSE Plain(Stored(E, op'.node, t, key))]_vars

\* off(type, cb) has removed all the records of the type, and the records of
\* the other type are still stored
C14_Witness ==
  /\ stack = <<>>
  /\ op.op = "off" /\ CallbackOnly(op)
  /\ calls = <<[call |-> "removeEventListener", node |-> op.node,
                type |-> op.events[1]]>>
  /\ E[op.node].ev # <<>>

\* ------------------------------------------------------------------------
\* C15: off() that names nothing stored
\* ------------------------------------------------------------------------

\* C15: off() naming a callback that is not stored under the type and selector
\* key it names, a type without bucket, or a node without registry, changes
\* neither the registry nor the subscriptions and calls no removeEventListener
C15_SilentNoOp ==
  [][(Did("off") /\ ~Matched(op'))
       => /\ E' = E
          /\ listeners' = listeners
          /\ calls' = <<>>]_vars

\* ------------------------------------------------------------------------
\* C16: an event of a type the node has no bucket for
\* ------------------------------------------------------------------------

\* C16: an event of a type without bucket in the bound node's registry, on
\* the node or inside it, starts no cycle: no handler is called, nothing is
\* thrown, and the registry and the subscriptions stay as they are
C16_NoBucketNoOp ==
  [][(Did("dispatch") /\ ~HasBucket(E, op'.node, op'.events[1]))
       => /\ stack' = <<>>
          /\ log' = <<>>
          /\ E' = E
          /\ listeners' = listeners]_vars

\* an event of a type without bucket has occurred on a node whose registry
\* holds handlers of another type
C16_Witness ==
  /\ stack = <<>>
  /\ op.op = "dispatch"
  /\ ~HasBucket(E, op.node, op.events[1])
  /\ E[op.node].ev # <<>>
  /\ log = <<>>

\* ------------------------------------------------------------------------
\* C17: what the removal of a delegated one() record takes with it
\* ------------------------------------------------------------------------

\* C17: the call of a one() record stored under a delegated selector detaches
\* that record and no other: every other record, one with the same function
\* under the same selector included, is still stored after the call
C17_DetachesExactlyOne ==
  [][(/\ stack # <<>>
      /\ Top.phase = "delegated"
      /\ CurHandler(Top).o = 1
      /\ CallbackOps(CurHandler(Top).fn) = {NoOp})
       => \A r \in RegRecs(E) : r.id # CurHandler(Top).id => r \in RegRecs(E')]_vars

\* ------------------------------------------------------------------------
\* C18: a non-delegated handler that returns false
\* ------------------------------------------------------------------------

\* C18 as stated: once a handler of the non-delegated list has returned
\* false, the cycle calls no later handler of that list
C18_FalseStopsList ==
  \A x, y \in 1..Len(log) :
    (x < y /\ log[x].sel = "" /\ log[x].ret = False) => log[y].sel # ""

\* C18 as amended: a finished cycle has called every record of the
\* non-delegated list it copied, once and in the order of the list, also the
\* records after one that returned false; the false return sets
\* propagationStopped
C18_ListRunsToEnd ==
  Finished =>
    /\ IdsOf(CallsNonDelegated) = IdsOf(Top.handlers)
    /\ StoppedInCycle => Top.propagationStopped

\* a finished cycle in which a non-delegated handler returned false and the
\* handler after it in the list was called
C18_Witness ==
  /\ Finished
  /\ \E x \in 1..(Len(log) - 1) :
       /\ log[x].sel = "" /\ log[x].ret = False
       /\ log[x + 1].sel = ""
       /\ log[x + 1].id = Top.handlers[Len(Top.handlers)].id

\* ------------------------------------------------------------------------
\* C19: a handler that throws
\* ------------------------------------------------------------------------

\* a call that threw is the last call of its cycle: a later call logged at the
\* same depth belongs to a later cycle, begun by a later call of the cycle
\* outside
C19_NothingAfterThrow ==
  \A x, y \in 1..Len(log) :
    (x < y /\ log[x].ret = Thrown /\ log[y].depth = log[x].depth)
      => \E z \in (x + 1)..(y - 1) : log[z].depth < log[x].depth

\* a cycle left by an exception is the innermost one, and the call that threw
\* is the last call made
C19_LeftByException ==
  \A d \in 1..Len(stack) :
    stack[d].phase = "thrown"
      => /\ d = Len(stack)
         /\ log # <<>>
         /\ log[Len(log)].ret = Thrown
         /\ log[Len(log)].depth = d

\* the exception is not caught: the next step takes the cycle off the stack,
\* back to the caller of nodeEventHandler
C19_ReachesCaller ==
  (stack # <<>> /\ Top.phase = "thrown")
    => /\ Len(stack') = Len(stack) - 1
       /\ \A d \in 1..Len(stack') : stack'[d].this = stack[d].this

\* C19: when a callback throws, nodeEventHandler does not catch it: the cycle
\* ends with that call, whatever handlers were left to call in it, and the
\* exception goes to the caller of nodeEventHandler
C19_Throw ==
  [][C19_ReachesCaller]_vars /\ []C19_NothingAfterThrow /\ []C19_LeftByException

\* a handler has thrown in the delegated section of a cycle whose node has
\* non-delegated handlers stored for the event type: they are not called
C19_Witness ==
  /\ stack # <<>>
  /\ Top.phase = "thrown"
  /\ Top.handlers = <<>>
  /\ Top.selectorHandlersCopy # <<>>
  /\ Stored(E, Top.this, Top.eType, "") # <<>>

\* ------------------------------------------------------------------------
\* C20: cycles inside cycles
\* ------------------------------------------------------------------------

\* the calls of the log made by the cycles at depth d
LogAt(d) == SelectSeq(log, LAMBDA e : e.depth = d)

\* how often the cycle at depth d has called the record id at path position i
TimesCalledAt(d, id, i) ==
  Cardinality({x \in 1..Len(log) :
                 log[x].depth = d /\ log[x].id = id /\ log[x].i = i})

\* a delegated handler of the cycle at depth d has returned false at a path
\* position before i
StoppedBeforeAt(d, i) ==
  \E x \in 1..Len(log) :
    log[x].depth = d /\ log[x].sel # "" /\ log[x].ret = False /\ log[x].i < i

\* a step of a cycle, or the start or end of a cycle inside, leaves the
\* propagationStopped flags of the cycles outside as they are
C20_FlagsApart ==
  \A d \in 1..(Len(stack) - 1) :
    d <= Len(stack')
      => stack'[d].propagationStopped = stack[d].propagationStopped

\* the outermost cycle, when it returns, has called every record of its copy
\* of the delegated handlers once for each path node it visited that matches
\* the record's selector, every record of its copy of the non-delegated
\* handlers once and in order, and no other record
C20_OuterSnapshot ==
  (Len(stack) = 1 /\ Top.phase = "done") =>
    /\ \A i \in 0..(Len(Top.path) - 1), j \in 1..Len(Top.selectors) :
         \A r \in Range(Get(Top.selectorHandlersCopy, Top.selectors[j])) :
           TimesCalledAt(1, r.id, i) =
             IF ~StoppedBeforeAt(1, i) /\ matches(Top.path[i + 1], Top.selectors[j])
             THEN 1 ELSE 0
    /\ IdsOf(SelectSeq(LogAt(1), LAMBDA e : e.sel = "")) = IdsOf(Top.handlers)
    /\ \A x \in 1..Len(log) :
         log[x].depth = 1 => log[x].id \in {r.id : r \in FrameRecs(Top)}

\* C20: a handler that returns false in a cycle started by a handler of another
\* cycle stops the cycle inside only, and the cycle outside goes on to call
\* exactly the records it has copied
C20_NestedIndependent == [][C20_FlagsApart]_vars /\ []C20_OuterSnapshot

\* the outermost cycle has returned after a handler of a cycle inside returned
\* false and the cycle outside then called the handler that follows trig
C20_Witness ==
  /\ Len(stack) = 1
  /\ Top.phase = "done"
  /\ ~Top.propagationStopped
  /\ \E x, y, z \in 1..Len(log) :
       /\ x < y /\ y < z
       /\ log[x].depth = 2 /\ log[x].ret = False
       /\ log[y].depth = 1 /\ log[y].fn = Fn("trig")
       /\ log[z].depth = 1

\* ------------------------------------------------------------------------
\* C21: the propagationStopped flag at the start of a cycle
\* ------------------------------------------------------------------------

\* a cycle begins in this step: the browser calls nodeEventHandler
Begins == stack' # <<>> /\ (stack = <<>> \/ Top.phase = "done")

\* the cycle that begins finds the flag false
C21_FreshAtStart == Begins => ~stack'[Len(stack')].propagationStopped

\* a cycle that has ended and in which no handler returned false has called
\* the non-delegated handlers of its node, all of them and in order
C21_NotSuppressed ==
  (stack # <<>> /\ Top.phase = "done" /\ \A x \in 1..Len(log) : log[x].ret # False)
    => IdsOf(SelectSeq(log, LAMBDA e : e.sel = ""))
         = IdsOf(Stored(E, Top.this, Top.eType, ""))

\* C21: the propagationStopped flag is false at the start of every cycle, and
\* a stop raised in one cycle suppresses no handler of another cycle, also when
\* both cycles get the same event object
C21_NoCarryOver == [][C21_FreshAtStart]_vars /\ []C21_NotSuppressed

\* ------------------------------------------------------------------------
\* C22: an event whose target is the bound node
\* ------------------------------------------------------------------------

\* the cycle for such an event has an empty path, and its calls are calls of
\* the non-delegated handlers it copied, in the order of the copy and on the
\* bound node; when it ends it has called them all
C22_OnlyNonDelegated ==
  (stack # <<>> /\ Top.target = Top.this) =>
    /\ Top.path = <<>>
    /\ \A x \in 1..Len(log) : log[x].sel = "" /\ log[x].this = Top.this
    /\ IsPrefix(IdsOf(log), IdsOf(Top.handlers))
    /\ Top.phase = "done" => IdsOf(log) = IdsOf(Top.handlers)

\* the copy is the array stored under the key "" when the cycle begins
C22_CopyOfStored ==
  (stack = <<>> /\ stack' # <<>> /\ stack'[1].target = stack'[1].this)
    => stack'[1].handlers = Stored(E, stack'[1].this, stack'[1].eType, "")

\* C22: when the target is the bound node itself, the cycle calls no delegated
\* handler, whatever selectors are stored, and calls exactly the non-delegated
\* handlers of the bound node, in registration order, on the bound node
C22_TargetIsBoundNode == [][C22_CopyOfStored]_vars /\ []C22_OnlyNonDelegated

\* such a cycle has ended on a node that stores a delegated handler whose
\* selector the node matches, after a call of a non-delegated handler
C22_Witness ==
  /\ stack # <<>>
  /\ Top.phase = "done"
  /\ Top.target = Top.this
  /\ Top.selectors # <<>>
  /\ \E x \in 1..Len(Top.selectors) : matches(Top.this, Top.selectors[x])
  /\ Len(log) >= 1

\* ------------------------------------------------------------------------
\* C23: the bubble path
\* ------------------------------------------------------------------------

\* the nodes of the model that are no elements
TextNodes == {"T"}

\* the path of a cycle that has built one holds the elements from the target
\* up to, but without, the bound node, each followed by its parent; it begins
\* with the target, or with the parent of a target that is no element
C23_PathNodes ==
  (stack # <<>> /\ Top.selectors # <<>> /\ Top.target # Top.this) =>
    /\ Range(Top.path) = BubbleNodes(Top.target, Top.this) \ TextNodes
    /\ \A x \in 1..(Len(Top.path) - 1) : Top.path[x + 1] = parentElement(Top.path[x])
    /\ Top.path # <<>> =>
         Top.path[1] = IF Top.target \in TextNodes THEN parentElement(Top.target)
                       ELSE Top.target

\* a delegated handler is called on elements only, and only on those that
\* match its selector
C23_CalledOnElements ==
  \A x \in 1..Len(log) :
    log[x].sel # "" => /\ log[x].this \notin TextNodes
                       /\ log[x].this = Top.path[log[x].i + 1]

\* C23: the bubble path is target, parent(target), ... without the bound node
\* when the target is an element and begins at parent(target) when it is not;
\* a target that is no element is never tested against a selector and never
\* passed to a delegated handler
C23_BubblePath == C23_PathNodes /\ C23_CalledOnElements

\* a cycle for an event whose target is the text node has called a delegated
\* handler on the element that contains the text node
C23_Witness ==
  /\ stack # <<>>
  /\ Top.target \in TextNodes
  /\ Top.path = <<"C", "B">>
  /\ \E x \in 1..Len(log) : log[x].sel # "" /\ log[x].this = "C"

\* ------------------------------------------------------------------------
\* C24: on() with several event types in one string
\* ------------------------------------------------------------------------

\* the data of an on() call, in whichever argument it was passed
OnData(c) ==
  IF ~isUndefined(c.handler) THEN c.data
  ELSE IF isUndefined(c.data) \/ typeofString(c.selector) THEN Undefined
  ELSE c.selector

\* the selector key of an on() call
OnKey(c) == IF typeofString(c.selector) THEN c.selector.v ELSE ""

\* how often the events string str lists the type name t
TimesListed(str, t) == Cardinality({x \in 1..Len(str) : str[x] = t})

\* C24: on(node, "t1 t2 ... tn", selector, data, cb) appends one record with
\* that data and callback for every listed type name, under the selector key
\* of the call, and leaves every other array as it is; it starts to listen to
\* the listed types that had no bucket; an empty token between spaces gives no
\* record, no bucket and no listener
C24_OnePerListedType ==
  [][Did("on") =>
       /\ \A t \in NamesT \cup {""}, key \in SelectorKeysR :
            Plain(Stored(E', op'.node, t, key)) =
              Plain(Stored(E, op'.node, t, key)) \o
                (IF t \in NamesT /\ key = OnKey(op')
                 THEN [x \in 1..TimesListed(op'.events, t) |->
                         [fn |-> OnCallback(op'), d |-> OnData(op'), o |-> 0]]
                 ELSE <<>>)
       /\ Range(keys(E'[op'.node].ev)) =
            Range(keys(E[op'.node].ev)) \cup (Range(op'.events) \ {Space})
       /\ listeners'[op'.node] =
            listeners[op'.node] \cup (Range(op'.events) \ {Space})
       /\ \A t \in NamesT \cup {""} :
            CallsOn(calls', op'.node, t) =
              IF t \in Range(op'.events) /\ ~HasBucket(E, op'.node, t)
              THEN <<[call |-> "addEventListener", node |-> op'.node, type |-> t]>>
              ELSE <<>>
       /\ \A x \in 1..Len(calls') : calls'[x].type # ""]_vars

\* on("click  key", '.item', data, handler) has stored a record for each of the
\* two types and begun to listen to both
C24_Witness ==
  /\ op.op = "on"
  /\ op.events = <<"click", Space, Space, "key">>
  /\ typeofString(op.selector)
  /\ Len(calls) = 2
  /\ Stored(E, op.node, "click", ".item") # <<>>
  /\ Stored(E, op.node, "key", ".item") # <<>>

\* ------------------------------------------------------------------------
\* C25: Element.prototype.attr
\* ------------------------------------------------------------------------

\* what a call that sets name to value has to leave behind: the value, read
\* back by attr(name), or no attribute when the value is null or undefined
AttrSetTo(attrs, name, value) ==
  IF value \in {Null, Undefined}
  THEN ~hasAttribute(attrs, name)
  ELSE attr(attrs, Str(name), Undefined).ret = value

\* C25: attr(name, value) followed by attr(name) returns the value; setting an
\* attribute to null or undefined, singly or inside an object of name-value
\* pairs, removes it, so that hasAttribute(name) is false afterwards
C25_AttrSetGetRemove ==
  [][Did("attr") =>
       /\ (typeofString(op'.attrib) /\ op'.args = 2)
            => AttrSetTo(attributes', op'.attrib.v, op'.value)
       /\ ~typeofString(op'.attrib)
            => \A x \in 1..Len(op'.attrib.v) :
                 AttrSetTo(attributes', op'.attrib.v[x].key, op'.attrib.v[x].val)]_vars

\* ------------------------------------------------------------------------
\* C26: a one() handler that dispatches an event of its own type
\* ------------------------------------------------------------------------

\* the call x of the log was made by the cycle at depth d that is running now:
\* no cycle further out has completed a call since
InRunningCycle(x, d) ==
  log[x].depth = d /\ \A y \in (x + 1)..Len(log) : log[y].depth >= d

\* the cycle at depth d runs inside the callback of a record set by one() that
\* the cycle at depth d - 1 is calling, on the same node and for the same type
InsideOwnOnce(d) ==
  /\ stack[d - 1].phase \in {"delegated", "nondelegated"}
  /\ CurHandler(stack[d - 1]).o = 1
  /\ stack[d].this = stack[d - 1].this
  /\ stack[d].eType = stack[d - 1].eType

\* C26: a cycle that a one() handler starts from inside its own callback, for
\* the same type and on the same bound node, does not call that handler again,
\* so that the two cycles together call it once
C26_OnceNotReentered ==
  \A d \in 2..Len(stack) :
    InsideOwnOnce(d) =>
      \A x \in 1..Len(log) :
        InRunningCycle(x, d) => log[x].id # CurHandler(stack[d - 1]).id

\* ------------------------------------------------------------------------
\* C27: the removal of a non-delegated one() handler
\* ------------------------------------------------------------------------

\* C27: the call of a non-delegated one() record, whose callback itself calls
\* nothing, and its removal leave the arrays stored under the delegated
\* selector keys of the node and type as they are, also when they hold
\* records with the callback of the one() record
C27_DelegatedKeysUntouched ==
  [][(/\ stack # <<>>
      /\ Top.phase = "nondelegated"
      /\ CurHandler(Top).o = 1
      /\ CurHandler(Top).fn # Fn("mut"))
       => \A key \in SelectorKeys \ {""} :
            Stored(E', Top.this, Top.eType, key)
              = Stored(E, Top.this, Top.eType, key)]_vars

\* ------------------------------------------------------------------------
\* C28: the registries of a node and of its clone
\* ------------------------------------------------------------------------

\* a call of on() or off() on one of the two nodes leaves what the other node
\* stores and listens to as it is
C28_OtherUnchanged ==
  (E[TheClone].def /\ (Did("on") \/ Did("off")))
    => \A n \in Nodes \ {op'.node} : E'[n] = E[n] /\ listeners'[n] = listeners[n]

\* C28: once a node is cloned with its events, on() and off() on the clone
\* leave the registry of the original unchanged and the other way round, and
\* neither registry holds an empty array or an empty bucket
C28_CloneNodeLocal == [][C28_OtherUnchanged]_vars /\ []C9_NoEmptyStructure

\* ------------------------------------------------------------------------
\* C29: the order of the calls of a cycle
\* ------------------------------------------------------------------------

\* of two calls of delegated handlers the earlier is on the same path node as
\* the later or on one nearer to the target, and no call of a delegated
\* handler follows a call of a non-delegated handler
C29_Order ==
  \A x, y \in 1..Len(log) :
    x < y =>
      /\ (log[x].sel # "" /\ log[y].sel # "") => IsInside(log[x].this, log[y].this)
      /\ log[x].sel = "" => log[y].sel = ""

\* a delegated handler is called on a node of the bubble path, a non-delegated
\* handler on the bound node, and each with the data of its own record
C29_ThisAndData ==
  \A x \in 1..Len(log) :
    /\ log[x].this \in IF log[x].sel = "" THEN {Top.this}
                        ELSE BubbleNodes(Top.target, Top.this)
    /\ \E r \in FrameRecs(Top) :
         r.id = log[x].id /\ r.fn = log[x].fn /\ r.d = log[x].d

\* C29: within one cycle the handlers for a nearer path node are called before
\* those for a farther one and every delegated handler before any
\* non-delegated one; the non-delegated handlers are called on the bound node
\* and every handler gets the data of its own record
C29_InvocationOrder == C29_Order /\ C29_ThisAndData

\* a cycle has called a delegated handler registered with data on two path
\* nodes and then a non-delegated handler
C29_Witness ==
  /\ stack # <<>>
  /\ Top.phase = "done"
  /\ \E x, y, z \in 1..Len(log) :
       /\ x < y /\ y < z
       /\ log[x].this = "C" /\ log[x].d = Str("d")
       /\ log[y].this = "B" /\ log[y].d = Str("d")
       /\ log[z].sel = "" /\ log[z].d = Undefined

\* ------------------------------------------------------------------------
\* C30: the number of calls of a cycle
\* ------------------------------------------------------------------------

\* the record objects of the clones a cycle walks, in their order
SnapshotIds(f) ==
  [delegated |-> [y \in 1..Len(f.selectorHandlersCopy) |->
                    [z \in 1..Len(f.selectorHandlersCopy[y].val) |->
                       f.selectorHandlersCopy[y].val[z].id]],
   nonDelegated |-> [z \in 1..Len(f.handlers) |-> f.handlers[z].id]]

\* the calls made so far are no more than the path length times the number of
\* records cloned for the delegated section, plus the length of the clone of
\* the non-delegated array
C30_Bounded ==
  stack # <<>> =>
    /\ Len(log) - Len(CallsNonDelegated)
         <= Len(Top.path) * Cardinality(RecsOfBucket(Top.selectorHandlersCopy))
    /\ Len(CallsNonDelegated) <= Len(Top.handlers)

\* a call of a handler, whatever it attaches or detaches, leaves the clones of
\* the running cycle as they were; the clone of the non-delegated array is
\* made when the delegated section is over
C30_SnapshotKept ==
  (stack # <<>> /\ stack' # <<>>) =>
    /\ SnapshotIds(Top').delegated = SnapshotIds(Top).delegated
    /\ Top.phase = "nondelegated" =>
         SnapshotIds(Top').nonDelegated = SnapshotIds(Top).nonDelegated

\* C30: a cycle whose callbacks all return, none of them dispatching an event,
\* comes to its end, after at most (path length x records cloned) calls of
\* delegated handlers and as many calls of non-delegated handlers as their
\* clone is long, also when the handlers attach handlers during the cycle
C30_Terminates ==
  /\ []C30_Bounded
  /\ [][C30_SnapshotKept]_vars
  /\ (stack # <<>>) ~> Finished

\* a cycle has ended with as many calls as the bound allows, one of them
\* having attached a handler
C30_Witness ==
  /\ Finished
  /\ Len(Top.path) = 2
  /\ Top.handlers # <<>>
  /\ Len(log) = Len(Top.path) * Cardinality(RecsOfBucket(Top.selectorHandlersCopy))
                  + Len(Top.handlers)
  /\ \E x \in 1..Len(log) : log[x].born # {}

====
